---- MODULE Spec2Model ----
(***************************************************************************)
(* Verification model of RedditVideoMakerBot: the timing calculator of     *)
(* video_creation/background.py, the audio assembler, image sequence       *)
(* builder, overlay compositor, render pass and progress tracker of        *)
(* video_creation/final_video.py, the submission loop of main.py, the      *)
(* submission search of utils/subreddit.py and the Streamlabs Polly        *)
(* client of TTS/streamlabs_polly.py.                                      *)
(*                                                                         *)
(* Each component has its own specification over the shared variables:     *)
(*   SpecWindow   get_start_and_end_times                                  *)
(*   SpecOverlay  _assemble_concatenated_audio,                            *)
(*                _prepare_image_sequence_for_video,                       *)
(*                _apply_overlays_to_background                            *)
(*   SpecRender   one render pass inside its ProgressFfmpeg scope          *)
(*   SpecProgress the render pass together with the encoder's progress     *)
(*                file and the polling thread of ProgressFfmpeg            *)
(*   SpecPipeline the stages of make_final_video and chop_background       *)
(*   SpecHelpers  one call of name_normalize, _safe_str_to_bool or         *)
(*                _merge_main_audio_with_background                        *)
(*   SpecPasses   the main render pass followed by the only-TTS pass, each *)
(*                with its own polling thread                              *)
(*   SpecMain     the submission loop and the exit handlers of main.py     *)
(*   SpecUndone   get_subreddit_undone                                     *)
(*   SpecPolly    StreamlabsPolly.run                                      *)
(***************************************************************************)
EXTENDS Integers, Sequences, FiniteSets, TLC

VARIABLES
    \* ---- get_start_and_end_times (background.py) ----
    video_length,     \* required output length, whole seconds (main.py: math.ceil)
    length_of_clip,   \* source length, in 1/Resolution seconds (a float in the code)
    initialValue,     \* the margin variable of the loop, as left by the loop
    random_time,      \* the start drawn by randrange
    w_end,            \* second component of the returned pair
    w_pc,             \* "call" | "returned" | "raised" ("idle": not in use)
    \* ---- audio assembler, image sequence builder, overlay compositor ----
    is_storymode,               \* settings: storymode
    storymode_method,           \* settings: storymodemethod
    number_of_comment_clips,    \* argument of make_final_video
    opacity,                    \* settings: opacity, in tenths (10 is 1.0)
    mp3_dir,                    \* files present in assets/temp/{id}/mp3
    png_dir,                    \* files present in assets/temp/{id}/png
    probe,                      \* duration ffmpeg.probe reports for each present clip
    audio_clips_ffmpeg_inputs,  \* the clips handed to ffmpeg.concat, in order
    audio_clips_durations,      \* the returned duration list
    duration_clip,              \* for each entry of the duration list, the clip it stands for
    probed,                     \* the clips ffmpeg.probe was called on, in order
    concatenated,               \* whether audio.mp3 was written
    a_error,                    \* exception _assemble_concatenated_audio raised, or "none"
    image_ffmpeg_streams,       \* the image layers, in order
    overlay_log,                \* one record per iteration of the overlay loop
    current_time,               \* running time of the overlay loop
    o_pc,                       \* "init" | "audio" | "images" | "composited" | "raised"
    \* ---- one render pass inside its ProgressFfmpeg scope ----
    render_pass,           \* "main" (lines 733-742) | "tts" (lines 753-762)
    vid_duration_seconds,  \* total_audio_length given to the tracker
    stop_event,            \* ProgressFfmpeg.stop_event is set
    output_file,           \* ProgressFfmpeg.output_file: "unset" | "open" | "None"
    progress_file,         \* the temporary progress file exists on disk
    thread_started,        \* Thread.start() was called
    stop_calls,            \* number of calls of stop() so far
    stop_error,            \* exception that escaped stop(), or "none"
    remove_error,          \* os.remove raised OSError inside stop() (logged)
    removed_externally,    \* the progress file was deleted by something else
    encoder,               \* "not_run" | "ok" | "failed"
    output_path_file,      \* file at the pass's output path: "absent" | "truncated" | "complete"
    progress_bar_n,        \* tqdm's n for the pass
    progress_bar_closed,   \* tqdm.close() was called
    r_pc,                  \* position of make_final_video in the pass
    \* ---- the progress file and the polling thread of ProgressFfmpeg ----
    progress_lines,        \* lines the encoder has written to the progress file
    poll_pc,               \* ProgressFfmpeg.run: "check" | "read" | "callback" | "wait" |
                           \* "ended" ("idle": not in use)
    polls,                 \* number of passes through the loop body so far
    lines_read,            \* the lines the last call of _get_latest_ms_progress read
    latest_progress_sec,   \* last result of _get_latest_ms_progress, in microseconds
    callback_log,          \* the values passed to progress_update_callback, in order
    poll_error,            \* exception caught by run's handler, or "none"
    \* ---- chop_background's extraction and the stages of make_final_video ----
    pl_pc,                    \* statement group about to run; "raised" | "done" at the end
    bound_names,              \* which of credit_font_file, print_step are bound in the module namespace
    enable_extra_audio,       \* settings: background.enable_extra_audio
    background_audio_volume,  \* settings: background.background_audio_volume, in tenths
    background_thumbnail,     \* settings: background.background_thumbnail
    background_mp3,           \* assets/temp/{id}/background.mp3 exists
    extract_attempts,         \* the strategies chop_background ran to cut background.mp4
    crop_attempts,            \* encoder invocations of _prepare_background_video
    stages,                   \* the stages completed so far, in order
    stage_errors,             \* every exception raised inside a stage, caught or not
    absorbed,                 \* conditions logged and passed over without ending the run
    final_audio,              \* what _merge_main_audio_with_background returned
    render_passes,            \* one record per call of _render_video_pass
    only_tts_dir,             \* results/{subreddit}/OnlyTTS was created
    pl_error,                 \* the exception that left the call, or "none"
    \* ---- helper functions applied to one argument ----
    call,                     \* the function applied ("idle": not in use)
    argument,                 \* its argument
    result,                   \* "pending", or what the call returned or raised
    \* ---- the encoder invocation of _render_video_pass ----
    encoder_runs,             \* calls of compiled_stream.run in the pass
    encoder_error,            \* the ffmpeg.Error the encoder run raised, if any
    render_log,               \* what _render_video_pass logged, in order
    pass_error,               \* the exception that left _render_video_pass, if any
    \* ---- the tracker of the main pass once the narration-only pass begins ----
    earlier_poll_pc,          \* position of its polling thread ("none": no such tracker)
    \* ---- the program run of main.py ----
    m_pc,                     \* "fetch" | "produce" | "shutdown" | "finally" | "exited"
    to_process,               \* submissions the run is configured to process
    submission_index,         \* the submission being processed, counted from 1
    current_reddit_id_for_cleanup,  \* _current_reddit_id_for_cleanup (0: None)
    temp_dirs,                \* the submissions whose assets/temp/{safe_thread_id} exists
    processed,                \* the submissions get_reddit_data has returned
    rmtree_failed,            \* shutil.rmtree raised OSError inside cleanup
    m_exception,              \* the exception handled or in flight, or "none"
    \* ---- get_subreddit_undone (utils/subreddit.py) ----
    u_pc,                     \* "check" | "fetch" | "returned" ("idle": not in use)
    submissions,              \* the batch the current call was given
    times_checked,            \* argument times_checked of the current call
    ai_similarity_enabled,    \* settings: ai.ai_similarity_enabled
    allow_nsfw,               \* settings: allow_nsfw ("missing": no such key)
    storymode,                \* settings: storymode
    fetched,                  \* the time filters subreddit.top was called with, in order
    fetch_failed,             \* subreddit.top raised
    u_result,                 \* what the outermost call returns
    \* ---- StreamlabsPolly.run (TTS/streamlabs_polly.py) ----
    p_pc,                     \* "run" | "returned" | "raised" ("idle": not in use)
    retry_count,              \* argument retry_count of the current call
    random_voice,             \* argument random_voice
    configured_voice,         \* settings: streamlabs_polly_voice: "unset" | "valid" | "invalid"
    attempts,                 \* the outcome of each POST request, in order
    p_error                   \* the exception that left run and what it reports

windowVars == <<video_length, length_of_clip, initialValue, random_time, w_end, w_pc>>

settingsVars == <<is_storymode, storymode_method, number_of_comment_clips, opacity,
                  mp3_dir, png_dir, probe>>

audioVars == <<audio_clips_ffmpeg_inputs, audio_clips_durations, duration_clip,
               probed, concatenated, a_error>>

overlayVars == <<image_ffmpeg_streams, overlay_log, current_time>>

trackerVars == <<vid_duration_seconds, stop_event, output_file, progress_file,
                 thread_started, stop_calls, stop_error, remove_error,
                 removed_externally>>

renderVars == <<render_pass, encoder, output_path_file, progress_bar_n,
                progress_bar_closed, r_pc>>

pollVars == <<progress_lines, poll_pc, polls, lines_read, latest_progress_sec,
              callback_log, poll_error>>

stageVars == <<pl_pc, bound_names, enable_extra_audio, background_audio_volume,
               background_thumbnail, background_mp3, extract_attempts, crop_attempts,
               stages, stage_errors, absorbed, final_audio, render_passes,
               only_tts_dir, pl_error>>

helperVars == <<call, argument, result>>

invocationVars == <<encoder_runs, encoder_error, render_log, pass_error>>

earlierVars == <<earlier_poll_pc>>

mainVars == <<m_pc, to_process, submission_index, current_reddit_id_for_cleanup,
              temp_dirs,
              processed, rmtree_failed, m_exception>>

undoneVars == <<u_pc, submissions, times_checked, ai_similarity_enabled, allow_nsfw,
                storymode, fetched, fetch_failed, u_result>>

pollyVars == <<p_pc, retry_count, random_voice, configured_voice, attempts, p_error>>

programVars == <<mainVars, undoneVars, pollyVars>>

outerVars == <<earlierVars, programVars>>

restVars == <<invocationVars, outerVars>>

vars == <<windowVars, settingsVars, audioVars, overlayVars, o_pc,
          trackerVars, renderVars, pollVars, stageVars, helperVars, restVars>>

(***************************************************************************)
(* Bounds of the model.                                                    *)
(***************************************************************************)
MaxVideoLength == 45
MaxClipLength == 200
Resolution == 2
MaxClips == 3
MaxDuration == 2
MaxAudioLength == 1
MaxStopCalls == 3
MaxLines == 2
MaxOutTime == 3
MaxPolls == 2
MaxNameLen == 5
MaxForbiddenLen == 2
MaxWordLen == 3
MaxInt == 2
MaxVolume == 2
MaxSubmissions == 3

(***************************************************************************)
(* The components a specification does not exercise stay in these states.  *)
(***************************************************************************)
IdleWindow ==
    /\ video_length = 0
    /\ length_of_clip = 0
    /\ initialValue = 0
    /\ random_time = 0
    /\ w_end = 0
    /\ w_pc = "idle"

IdleOverlay ==
    /\ is_storymode = FALSE
    /\ storymode_method = 0
    /\ number_of_comment_clips = 0
    /\ opacity = 10
    /\ mp3_dir = {}
    /\ png_dir = {}
    /\ probe = <<>>
    /\ audio_clips_ffmpeg_inputs = <<>>
    /\ audio_clips_durations = <<>>
    /\ duration_clip = <<>>
    /\ probed = <<>>
    /\ concatenated = FALSE
    /\ a_error = "none"
    /\ image_ffmpeg_streams = <<>>
    /\ overlay_log = <<>>
    /\ current_time = 0
    /\ o_pc = "idle"

IdleRender ==
    /\ render_pass = "main"
    /\ vid_duration_seconds = 0
    /\ stop_event = FALSE
    /\ output_file = "unset"
    /\ progress_file = FALSE
    /\ thread_started = FALSE
    /\ stop_calls = 0
    /\ stop_error = "none"
    /\ remove_error = FALSE
    /\ removed_externally = FALSE
    /\ encoder = "not_run"
    /\ output_path_file = "absent"
    /\ progress_bar_n = 0
    /\ progress_bar_closed = FALSE
    /\ r_pc = "idle"

\* The None that _get_latest_ms_progress returns for "no progress known".
NoProgress == -1

IdlePoll ==
    /\ progress_lines = <<>>
    /\ poll_pc = "idle"
    /\ polls = 0
    /\ lines_read = <<>>
    /\ latest_progress_sec = NoProgress
    /\ callback_log = <<>>
    /\ poll_error = "none"

\* No statement of chop_background or make_final_video is being followed.
NoStageRun ==
    /\ pl_pc = "idle"
    /\ enable_extra_audio = FALSE
    /\ background_audio_volume = 0
    /\ background_thumbnail = FALSE
    /\ background_mp3 = FALSE
    /\ extract_attempts = <<>>
    /\ crop_attempts = 0
    /\ stages = <<>>
    /\ stage_errors = <<>>
    /\ absorbed = {}
    /\ final_audio = [input |-> "none"]
    /\ render_passes = <<>>
    /\ only_tts_dir = FALSE
    /\ pl_error = "none"

IdleStages ==
    /\ bound_names = {}
    /\ NoStageRun

IdleHelpers ==
    /\ call = "idle"
    /\ argument = <<>>
    /\ result = [status |-> "pending"]

\* "No exception", in the shape of an exception.
NoError == [type |-> "none", stderr |-> "none"]

IdleInvocation ==
    /\ encoder_runs = 0
    /\ encoder_error = NoError
    /\ render_log = <<>>
    /\ pass_error = NoError

IdleEarlier == earlier_poll_pc = "none"

IdleMain ==
    /\ m_pc = "idle"
    /\ to_process = 0
    /\ submission_index = 0
    /\ current_reddit_id_for_cleanup = 0
    /\ temp_dirs = {}
    /\ processed = {}
    /\ rmtree_failed = FALSE
    /\ m_exception = "none"

IdleUndone ==
    /\ u_pc = "idle"
    /\ submissions = <<>>
    /\ times_checked = 0
    /\ ai_similarity_enabled = FALSE
    /\ allow_nsfw = "false"
    /\ storymode = FALSE
    /\ fetched = <<>>
    /\ fetch_failed = FALSE
    /\ u_result = [kind |-> "pending"]

IdlePolly ==
    /\ p_pc = "idle"
    /\ retry_count = 0
    /\ random_voice = FALSE
    /\ configured_voice = "unset"
    /\ attempts = <<>>
    /\ p_error = [type |-> "none", after |-> "none"]

IdleOuter ==
    /\ IdleEarlier
    /\ IdleMain
    /\ IdleUndone
    /\ IdlePolly

IdleRest ==
    /\ IdleInvocation
    /\ IdleOuter

(***************************************************************************)
(* Timing calculator: background.py, get_start_and_end_times               *)
(***************************************************************************)
InitialMargin == 180

TooShort == -1

\* int(x) of a non-negative float: truncation to whole seconds.
Trunc(x) == x \div Resolution

\* The while loop of lines 58-62.  video_length is an integer, so
\* int(video_length + initialValue) is video_length + initialValue.
\* Variant without the halving of issue #1649: the margin stays at its first value.
HalveMarginNoHalving(margin, vl, loc) ==
    IF Trunc(loc) <= vl + margin THEN TooShort ELSE margin

\* Variant that gives up one halving early: the margin 0 is never tried.
RECURSIVE HalveMarginStopAtOne(_, _, _)
HalveMarginStopAtOne(margin, vl, loc) ==
    IF Trunc(loc) <= vl + margin
    THEN IF margin \div 2 = 0
         THEN TooShort
         ELSE HalveMarginStopAtOne(margin \div 2, vl, loc)
    ELSE margin

RECURSIVE HalveMargin(_, _, _)
HalveMargin(margin, vl, loc) ==
    IF Trunc(loc) <= vl + margin
    THEN IF margin = margin \div 2
         THEN TooShort
         ELSE HalveMargin(margin \div 2, vl, loc)
    ELSE margin

\* The exclusive stop argument of randrange on line 63.
RandrangeStopNoSubtract(vl, loc) == Trunc(loc)
RandrangeStop(vl, loc) == Trunc(loc) - vl

\* randrange(a, b) draws from a, a+1, ..., b-1.
Randrange(a, b) == a .. (b - 1)

get_start_and_end_times ==
    /\ w_pc = "call"
    /\ LET m == HalveMargin(InitialMargin, video_length, length_of_clip) IN
       IF m = TooShort
       THEN /\ w_pc' = "raised"
            /\ initialValue' = 0
            /\ UNCHANGED <<random_time, w_end>>
       ELSE /\ initialValue' = m
            /\ \E r \in Randrange(m, RandrangeStop(video_length, length_of_clip)) :
                  /\ random_time' = r
                  /\ w_end' = r + video_length
            /\ w_pc' = "returned"
    /\ UNCHANGED <<video_length, length_of_clip>>
    /\ UNCHANGED <<settingsVars, audioVars, overlayVars, o_pc>>
    /\ UNCHANGED <<trackerVars, renderVars>>
    /\ UNCHANGED <<pollVars, stageVars, helperVars>>
    /\ UNCHANGED restVars

\* chop_background passes math.ceil of the narration length (main.py, line
\* 183) and the duration of the downloaded background clip.
InitWindow ==
    /\ IdleRest
    /\ IdlePoll
    /\ IdleStages
    /\ IdleHelpers
    /\ video_length \in 0 .. MaxVideoLength
    /\ length_of_clip \in 0 .. (MaxClipLength * Resolution)
    /\ initialValue = InitialMargin
    /\ random_time = 0
    /\ w_end = 0
    /\ w_pc = "call"
    /\ IdleOverlay
    /\ IdleRender

NextWindow == get_start_and_end_times

SpecWindow == InitWindow /\ [][NextWindow]_vars

(***************************************************************************)
(* Claims about the timing calculator (checked under SpecWindow).          *)
(***************************************************************************)

\* C1 as stated: every pair (start, end) that get_start_and_end_times returns,
\* for any required length and any source length, satisfies 0 <= start < end,
\* end = start + video_length and end <= length_of_clip.
C1_WindowInsideSource ==
    w_pc = "returned" =>
        /\ 0 <= random_time
        /\ random_time < w_end
        /\ w_end = random_time + video_length
        /\ w_end * Resolution <= length_of_clip

\* C1 amended: every returned pair satisfies 0 <= start <= end,
\* end = start + video_length and end <= length_of_clip, and start < end
\* exactly when the required length is at least 1.
C1_WindowInsideSourceMaybeEmpty ==
    w_pc = "returned" =>
        /\ 0 <= random_time
        /\ random_time <= w_end
        /\ (random_time < w_end) <=> (video_length >= 1)
        /\ w_end = random_time + video_length
        /\ w_end * Resolution <= length_of_clip

\* C1 witness: a window was returned that ends on the last whole second the
\* code allows, in a source whose length is not a whole number of seconds.
C1_Witness ==
    /\ w_pc = "returned"
    /\ video_length >= 1
    /\ length_of_clip % Resolution # 0
    /\ w_end = Trunc(length_of_clip) - 1

\* A window 0 <= start < start + required <= total exists (start = 0 is the
\* first candidate, so one exists exactly when [0, required) fits).
WindowExists ==
    \E s \in 0 .. MaxClipLength :
        /\ s < s + video_length
        /\ (s + video_length) * Resolution <= length_of_clip

\* C2 as stated: the function raises if and only if no window
\* 0 <= start < start + required <= total exists.
C2_RaisesIffNoWindow ==
    w_pc # "call" => ((w_pc = "raised") <=> ~WindowExists)

\* C2 amended: the function raises if and only if the source length truncated
\* to whole seconds is at most the required length, and returns otherwise.
C2_RaisesIffTruncatedSourceNotLonger ==
    w_pc # "call" =>
        /\ (w_pc = "raised") <=> (Trunc(length_of_clip) <= video_length)
        /\ (w_pc = "returned") <=> (Trunc(length_of_clip) > video_length)

\* C2 witness: the call raised although the window [0, required) fits.
C2_Witness ==
    /\ w_pc = "raised"
    /\ WindowExists
    /\ Trunc(length_of_clip) = video_length

\* The values the margin takes: 180 halved with integer division down to 0.
HalvingChain == <<180, 90, 45, 22, 11, 5, 2, 1, 0>>

\* The general part of C3: the margin the loop leaves is the first value of
\* 180, 90, 45, ... with total > required + margin, and the start is drawn
\* from [margin, total - required).
MarginIsFirstThatFits ==
    w_pc = "returned" =>
        /\ \E k \in 1 .. Len(HalvingChain) :
              /\ initialValue = HalvingChain[k]
              /\ Trunc(length_of_clip) > video_length + HalvingChain[k]
              /\ \A j \in 1 .. (k - 1) :
                    Trunc(length_of_clip) <= video_length + HalvingChain[j]
        /\ initialValue <= random_time
        /\ random_time < Trunc(length_of_clip) - video_length

\* The scenario of C3: a source of length 200 and a required length of 45.
Scenario200x45 ==
    /\ w_pc # "call"
    /\ Trunc(length_of_clip) = 200
    /\ video_length = 45

\* C3 as stated: the margin is halved until total > required + margin and the
\* start is drawn from [margin, total - required); for total 200 and required
\* 45 the margin settles at 45 and every returned start lies in [45, 155).
C3_MarginSettlesAt45 ==
    /\ MarginIsFirstThatFits
    /\ Scenario200x45 =>
          /\ w_pc = "returned"
          /\ initialValue = 45
          /\ random_time \in 45 .. 154

\* C3 amended: as C3, but for total 200 and required 45 the margin settles at
\* 90 (200 > 45 + 90 already holds) and every returned start lies in [90, 155).
C3_MarginSettlesAt90 ==
    /\ MarginIsFirstThatFits
    /\ Scenario200x45 =>
          /\ w_pc = "returned"
          /\ initialValue = 90
          /\ random_time \in 90 .. 154

\* C3 witness: source 200, required 45, and the largest start, 154, was drawn.
C3_Witness ==
    /\ w_pc = "returned"
    /\ length_of_clip = 200 * Resolution
    /\ video_length = 45
    /\ initialValue = 90
    /\ random_time = 154

(***************************************************************************)
(* File naming contract: final_video.py.  A file is named by its pattern   *)
(* and its index.                                                          *)
(***************************************************************************)
TitleMp3 == <<"title.mp3", 0>>
CommentMp3(i) == <<"{i}.mp3", i>>
PostMp3 == <<"postaudio.mp3", 0>>
PostSegMp3(i) == <<"postaudio-{i}.mp3", i>>
TitlePng == <<"title.png", 0>>
CommentPng(i) == <<"comment_{i}.png", i>>
StoryContentPng == <<"story_content.png", 0>>
StorySegPng(i) == <<"img{i}.png", i>>

\* The clips and screenshots the earlier stages may have left for a run.
CandidateMp3(sm, method, n) ==
    {TitleMp3} \cup
    (IF sm
     THEN IF method = 0 THEN {PostMp3} ELSE {PostSegMp3(i) : i \in 0 .. n}
     ELSE {CommentMp3(i) : i \in 0 .. (n - 1)})

CandidatePng(sm, method, n) ==
    IF sm
    THEN IF method = 0 THEN {StoryContentPng} ELSE {StorySegPng(i) : i \in 0 .. n}
    ELSE {CommentPng(i) : i \in 0 .. (n - 1)}

(***************************************************************************)
(* Audio assembler: final_video.py, _assemble_concatenated_audio           *)
(***************************************************************************)

\* make_final_video, lines 641-643.
num_clips_for_audio_assembly ==
    IF is_storymode /\ storymode_method = 0 THEN 1 ELSE number_of_comment_clips

\* The path built on line 328 (story segments) or on line 344 (comments).
ClipPath(story, i) == IF story THEN PostSegMp3(i) ELSE CommentMp3(i)

\* One loop of lines 327-335 (story) / 343-351 (comments), for the indices
\* i .. hi-1: a present clip is added to the inputs and probed, a missing
\* clip is logged and recorded as 0.0.
RECURSIVE CollectClips(_, _, _, _)
CollectClips(story, i, hi, acc) ==
    IF i >= hi
    THEN acc
    ELSE IF ClipPath(story, i) \in mp3_dir
         THEN CollectClips(story, i + 1, hi,
                  [inputs |-> Append(acc.inputs, ClipPath(story, i)),
                   durations |-> Append(acc.durations, probe[ClipPath(story, i)]),
                   clips |-> Append(acc.clips, ClipPath(story, i)),
                   probed |-> Append(acc.probed, ClipPath(story, i))])
         ELSE CollectClips(story, i + 1, hi,
                  [inputs |-> acc.inputs,
                   durations |-> Append(acc.durations, 0),
                   clips |-> Append(acc.clips, ClipPath(story, i)),
                   probed |-> acc.probed])

\* Lines 318-324: the single post clip of story mode, method 0.  A missing
\* clip is logged; nothing is appended to the duration list.
CollectPostAudio(acc) ==
    IF PostMp3 \in mp3_dir
    THEN [inputs |-> Append(acc.inputs, PostMp3),
          durations |-> Append(acc.durations, probe[PostMp3]),
          clips |-> Append(acc.clips, PostMp3),
          probed |-> Append(acc.probed, PostMp3)]
    ELSE acc

\* Variant of the check of lines 353-360 that raises when only the title
\* clip was collected instead of logging it.
NoClipsErrorOnlyTitleRaises(inputs, n, sm) ==
    IF Len(inputs) = 0 \/ (Len(inputs) <= 1 /\ n > 0)
    THEN "ValueError"
    ELSE "none"

\* Lines 353-360: `not inputs or len(inputs) <= 1 and num_comment_clips > 0`,
\* then log, or raise ValueError when there is no input at all.
NoClipsError(inputs, n, sm) ==
    IF Len(inputs) = 0 \/ (Len(inputs) <= 1 /\ n > 0)
    THEN IF Len(inputs) <= 1 /\ (n > 0 \/ sm)
         THEN "none"
         ELSE IF Len(inputs) = 0 THEN "ValueError" ELSE "none"
    ELSE "none"

\* Lines 303-314 followed by the branch of the layout, lines 316-351.  Line
\* 303 reads `audio_clips_ ffmpeg_inputs = []`; it is taken as the empty list
\* audio_clips_ffmpeg_inputs that every later line appends to.
CollectedAudio(n) ==
    LET title == [inputs |-> <<TitleMp3>>,
                  durations |-> <<probe[TitleMp3]>>,
                  clips |-> <<TitleMp3>>,
                  probed |-> <<TitleMp3>>]
    IN  IF is_storymode
        THEN IF storymode_method = 0
             THEN CollectPostAudio(title)
             ELSE IF storymode_method = 1
                  THEN CollectClips(TRUE, 0, n + 1, title)
                  ELSE title
        ELSE CollectClips(FALSE, 0, n, title)

\* The encoder and probe calls are taken to succeed (lines 362-373).
assemble_concatenated_audio ==
    /\ o_pc = "init"
    /\ LET n == num_clips_for_audio_assembly IN
       IF TitleMp3 \notin mp3_dir
       THEN /\ a_error' = "FileNotFoundError"
            /\ o_pc' = "raised"
            /\ UNCHANGED <<audio_clips_ffmpeg_inputs, audio_clips_durations,
                           duration_clip, probed, concatenated>>
       ELSE LET got == CollectedAudio(n)
                err == NoClipsError(got.inputs, n, is_storymode)
            IN  /\ audio_clips_ffmpeg_inputs' = got.inputs
                /\ probed' = got.probed
                /\ a_error' = err
                /\ IF err # "none"
                   THEN /\ o_pc' = "raised"
                        /\ UNCHANGED <<audio_clips_durations, duration_clip, concatenated>>
                   ELSE /\ audio_clips_durations' = got.durations
                        /\ duration_clip' = got.clips
                        /\ concatenated' = TRUE
                        /\ o_pc' = "audio"
    /\ UNCHANGED <<windowVars, settingsVars, overlayVars>>
    /\ UNCHANGED <<trackerVars, renderVars>>
    /\ UNCHANGED <<pollVars, stageVars, helperVars>>
    /\ UNCHANGED restVars

(***************************************************************************)
(* Image sequence builder: final_video.py,                                 *)
(* _prepare_image_sequence_for_video                                       *)
(***************************************************************************)

\* The path built on line 409 (story segments) or on line 420 (comments).
ImagePath(story, i) == IF story THEN StorySegPng(i) ELSE CommentPng(i)

\* One loop of lines 408-416 (story) / 419-427 (comments): a present image is
\* appended, a missing image is logged and skipped.
RECURSIVE CollectImages(_, _, _, _)
CollectImages(story, i, hi, acc) ==
    IF i >= hi
    THEN acc
    ELSE CollectImages(story, i + 1, hi,
             IF ImagePath(story, i) \in png_dir
             THEN Append(acc, ImagePath(story, i))
             ELSE acc)

\* make_final_video passes number_of_comment_clips unchanged (line 668).
prepare_image_sequence_for_video ==
    /\ o_pc = "audio"
    /\ LET n == number_of_comment_clips
           title == <<TitlePng>>
       IN  image_ffmpeg_streams' =
               IF is_storymode
               THEN IF storymode_method = 0
                    THEN IF StoryContentPng \in png_dir
                         THEN Append(title, StoryContentPng)
                         ELSE title
                    ELSE IF storymode_method = 1
                         THEN CollectImages(TRUE, 0, n + 1, title)
                         ELSE title
               ELSE CollectImages(FALSE, 0, n, title)
    /\ o_pc' = "images"
    /\ UNCHANGED <<windowVars, settingsVars, audioVars, overlay_log, current_time>>
    /\ UNCHANGED <<trackerVars, renderVars>>
    /\ UNCHANGED <<pollVars, stageVars, helperVars>>
    /\ UNCHANGED restVars

(***************************************************************************)
(* Overlay compositor: final_video.py, _apply_overlays_to_background       *)
(***************************************************************************)
Min(a, b) == IF a <= b THEN a ELSE b

\* ffmpeg's expression between(t, lo, hi) of line 468: 1 when lo <= t <= hi.
Between(t, lo, hi) == lo <= t /\ t <= hi

\* Line 463 without the test of the index.
AlphaScaledAnyLayer(i) == opacity < 10

\* Lines 463-464: the colorchannelmixer filter (aa = opacity) is put on the
\* layer of index i.  opacity is in tenths.
AlphaScaled(i) == i > 0 /\ opacity < 10

\* The loop of lines 451-476.  i is the 0-based loop index; every iteration
\* is logged with the image, the duration it was paired with and, when the
\* overlay was applied, its enable window and whether alpha was scaled.
RECURSIVE OverlayLoop(_, _, _, _)
OverlayLoop(i, num_overlays_to_apply, t, log) ==
    IF i >= num_overlays_to_apply
    THEN [log |-> log, current_time |-> t]
    ELSE LET image == image_ffmpeg_streams[i + 1]
             duration == audio_clips_durations[i + 1]
         IN  IF duration <= 0
             THEN OverlayLoop(i + 1, num_overlays_to_apply, t,
                      Append(log, [i |-> i, image |-> image, duration |-> duration,
                                   clip |-> duration_clip[i + 1], applied |-> FALSE,
                                   lo |-> t, hi |-> t, alpha |-> FALSE]))
             ELSE OverlayLoop(i + 1, num_overlays_to_apply, t + duration,
                      Append(log, [i |-> i, image |-> image, duration |-> duration,
                                   clip |-> duration_clip[i + 1], applied |-> TRUE,
                                   lo |-> t, hi |-> t + duration,
                                   alpha |-> AlphaScaled(i)]))

apply_overlays_to_background ==
    /\ o_pc = "images"
    /\ LET num_overlays_to_apply ==
               Min(Len(image_ffmpeg_streams), Len(audio_clips_durations))
           done == IF Len(image_ffmpeg_streams) = 0
                   THEN [log |-> <<>>, current_time |-> 0]
                   ELSE OverlayLoop(0, num_overlays_to_apply, 0, <<>>)
       IN  /\ overlay_log' = done.log
           /\ current_time' = done.current_time
    /\ o_pc' = "composited"
    /\ UNCHANGED <<windowVars, settingsVars, audioVars, image_ffmpeg_streams>>
    /\ UNCHANGED <<trackerVars, renderVars>>
    /\ UNCHANGED <<pollVars, stageVars, helperVars>>
    /\ UNCHANGED restVars

\* The settings and the files the earlier stages left behind.  title.png is
\* written by make_final_video itself (line 663) before the images are read.
InitOverlay ==
    /\ IdleRest
    /\ IdlePoll
    /\ IdleStages
    /\ IdleHelpers
    /\ IdleWindow
    /\ IdleRender
    /\ is_storymode \in BOOLEAN
    /\ storymode_method \in {0, 1}
    /\ number_of_comment_clips \in 0 .. MaxClips
    /\ opacity \in {5, 10}
    /\ mp3_dir \in SUBSET CandidateMp3(is_storymode, storymode_method, number_of_comment_clips)
    /\ png_dir \in SUBSET CandidatePng(is_storymode, storymode_method, number_of_comment_clips)
    /\ probe \in [mp3_dir -> 1 .. MaxDuration]
    /\ audio_clips_ffmpeg_inputs = <<>>
    /\ audio_clips_durations = <<>>
    /\ duration_clip = <<>>
    /\ probed = <<>>
    /\ concatenated = FALSE
    /\ a_error = "none"
    /\ image_ffmpeg_streams = <<>>
    /\ overlay_log = <<>>
    /\ current_time = 0
    /\ o_pc = "init"

NextOverlay ==
    \/ assemble_concatenated_audio
    \/ prepare_image_sequence_for_video
    \/ apply_overlays_to_background

SpecOverlay == InitOverlay /\ [][NextOverlay]_vars

(***************************************************************************)
(* Claims about the audio assembler, the image sequence builder and the    *)
(* overlay compositor (checked under SpecOverlay).                         *)
(***************************************************************************)
AudioAssembled == o_pc \in {"audio", "images", "composited"}

\* The segment count n handed to _assemble_concatenated_audio, and the clip
\* of segment p (the title is segment 0).
SegmentCount == num_clips_for_audio_assembly

SegmentClip(p) ==
    IF is_storymode
    THEN IF storymode_method = 0 THEN PostMp3 ELSE PostSegMp3(p - 1)
    ELSE CommentMp3(p - 1)

\* C4 as stated: for every layout, every segment count n and every subset of
\* missing non-title clips, the returned duration list has length n + 1 and
\* holds 0.0 at the index of every missing segment.
C4_DurationListHasOneEntryPerSegment ==
    AudioAssembled =>
        /\ Len(audio_clips_durations) = SegmentCount + 1
        /\ \A p \in 1 .. SegmentCount :
              SegmentClip(p) \notin mp3_dir =>
                  /\ p + 1 <= Len(audio_clips_durations)
                  /\ audio_clips_durations[p + 1] = 0

\* C5: given that the encoder and probe calls succeed,
\* _assemble_concatenated_audio raises if and only if title.mp3 is absent;
\* then nothing was probed or concatenated; no set of missing comment or
\* story clips makes it raise.
C5_RaisesIffTitleMissing ==
    o_pc \in {"audio", "images", "composited", "raised"} =>
        /\ (o_pc = "raised") <=> (TitleMp3 \notin mp3_dir)
        /\ (a_error # "none") <=> (TitleMp3 \notin mp3_dir)
        /\ TitleMp3 \notin mp3_dir =>
              /\ a_error = "FileNotFoundError"
              /\ probed = <<>>
              /\ audio_clips_ffmpeg_inputs = <<>>
              /\ ~concatenated

\* C5 witness: the title clip is present, segments were expected and every
\* one of their clips is missing, and the assembler returned without raising.
C5_Witness ==
    /\ o_pc = "audio"
    /\ a_error = "none"
    /\ SegmentCount >= 2
    /\ mp3_dir = {TitleMp3}
    /\ concatenated

\* The narration clip that belongs to an image: same segment, same layout.
AudioClipOfImage(image) ==
    IF image[1] = "title.png" THEN TitleMp3
    ELSE IF image[1] = "comment_{i}.png" THEN CommentMp3(image[2])
    ELSE IF image[1] = "story_content.png" THEN PostMp3
    ELSE PostSegMp3(image[2])

\* Where a clip starts in the concatenated track: the durations of the
\* inputs concatenated before it.
RECURSIVE Offset(_, _)
Offset(clip, k) ==
    IF k > Len(audio_clips_ffmpeg_inputs) \/ audio_clips_ffmpeg_inputs[k] = clip
    THEN 0
    ELSE probe[audio_clips_ffmpeg_inputs[k]] + Offset(clip, k + 1)

\* C6 as stated: every pair the overlay loop forms joins the image of a
\* segment with the duration of that same segment, and every overlay applied
\* is shown during the interval that segment's audio occupies in the
\* concatenated track.
C6_ImagePairedWithOwnSegment ==
    o_pc = "composited" =>
        \A k \in 1 .. Len(overlay_log) :
            LET e == overlay_log[k]
                c == AudioClipOfImage(e.image)
            IN  /\ e.clip = c
                /\ e.applied =>
                      /\ c \in mp3_dir
                      /\ e.lo = Offset(c, 1)
                      /\ e.hi = Offset(c, 1) + probe[c]

IsApplied(e) == e.applied

AppliedOverlays == SelectSeq(overlay_log, IsApplied)

\* The windows of the applied overlays start at 0 and each starts where the
\* previous one ends.
WindowsContiguous ==
    LET a == AppliedOverlays
    IN  /\ Len(a) > 0 => a[1].lo = 0
        /\ \A k \in 1 .. (Len(a) - 1) : a[k + 1].lo = a[k].hi
        /\ \A k \in 1 .. Len(a) : a[k].hi = a[k].lo + a[k].duration

\* No instant of the video lies in the enable window of two overlays.
WindowsDisjoint ==
    LET a == AppliedOverlays
    IN  \A t \in 0 .. current_time :
            Cardinality({k \in 1 .. Len(a) : Between(t, a[k].lo, a[k].hi)}) <= 1

\* C7 as stated: the windows of the applied overlays are [0,d0), [d0,d0+d1),
\* ...: the first starts at 0, each next one starts where the previous one
\* ends, and no instant belongs to two windows.
C7_WindowsContiguousAndDisjoint ==
    o_pc = "composited" => (WindowsContiguous /\ WindowsDisjoint)


\* C17: the title layer (index 0) is never alpha-scaled, whatever the
\* opacity, and an applied layer of index > 0 is alpha-scaled exactly when
\* opacity < 1.0; with opacity 0.5 and two applied non-title layers both are
\* scaled and the title is not.
C17_OnlyNonTitleLayersAlphaScaled ==
    \A k \in 1 .. Len(overlay_log) :
        LET e == overlay_log[k]
        IN  /\ e.i = 0 => (e.image = TitlePng /\ ~e.alpha)
            /\ (e.applied /\ e.i > 0) => (e.alpha <=> opacity < 10)
            /\ (opacity = 5 /\ e.applied /\ e.i > 0) => e.alpha
            /\ ~e.applied => ~e.alpha

\* C17 witness: opacity 0.5, the title and two non-title layers applied; the
\* two are scaled, the title is not.
C17_Witness ==
    /\ o_pc = "composited"
    /\ opacity = 5
    /\ Len(overlay_log) = 3
    /\ \A k \in 1 .. 3 : overlay_log[k].applied
    /\ ~overlay_log[1].alpha
    /\ overlay_log[2].alpha
    /\ overlay_log[3].alpha

(***************************************************************************)
(* Progress tracker and render pass: final_video.py, ProgressFfmpeg,       *)
(* _render_video_pass and the `with` blocks of make_final_video            *)
(***************************************************************************)

\* ProgressFfmpeg.stop written without the output_file guard, the exists()
\* check and the exception handlers: a further call removes a missing file.
StopEffectUnguarded(removeOk) ==
    /\ stop_event' = TRUE
    /\ stop_calls' = stop_calls + 1
    /\ output_file' = "None"
    /\ IF progress_file
       THEN IF removeOk
            THEN /\ progress_file' = FALSE
                 /\ UNCHANGED <<remove_error, stop_error>>
            ELSE /\ remove_error' = TRUE
                 /\ stop_error' = "OSError"
                 /\ UNCHANGED progress_file
       ELSE /\ stop_error' = "FileNotFoundError"
            /\ UNCHANGED <<progress_file, remove_error>>
    /\ UNCHANGED <<vid_duration_seconds, thread_started, removed_externally>>

\* ProgressFfmpeg.stop, lines 128-142.  removeOk: whether os.remove succeeds;
\* an OSError it raises is caught and logged (lines 138-139), and the handle
\* is dropped either way (line 142).
StopEffect(removeOk) ==
    /\ stop_event' = TRUE
    /\ stop_calls' = stop_calls + 1
    /\ IF output_file # "None"
       THEN /\ output_file' = "None"
            /\ IF progress_file
               THEN IF removeOk
                    THEN /\ progress_file' = FALSE
                         /\ UNCHANGED remove_error
                    ELSE /\ remove_error' = TRUE
                         /\ UNCHANGED progress_file
               ELSE UNCHANGED <<progress_file, remove_error>>
       ELSE UNCHANGED <<output_file, progress_file, remove_error>>
    /\ UNCHANGED <<stop_error, vid_duration_seconds, thread_started, removed_externally>>

\* tqdm(total=100, ...) and ProgressFfmpeg.__init__, lines 51-64 and 733-737:
\* NamedTemporaryFile(delete=False) creates the progress file.
ProgressFfmpeg_init ==
    /\ r_pc = "init"
    /\ output_file' = "open"
    /\ progress_file' = TRUE
    /\ stop_event' = FALSE
    /\ progress_bar_n' = 0
    /\ r_pc' = "enter"
    /\ UNCHANGED <<vid_duration_seconds, thread_started, stop_calls, stop_error,
                   remove_error, removed_externally>>
    /\ UNCHANGED <<render_pass, encoder, output_path_file, progress_bar_closed>>
    /\ UNCHANGED <<windowVars, settingsVars, audioVars, overlayVars, o_pc>>
    /\ UNCHANGED <<pollVars, stageVars, helperVars>>
    /\ UNCHANGED restVars

\* ProgressFfmpeg.__enter__, lines 144-146.
ProgressFfmpeg_enter ==
    /\ r_pc = "enter"
    /\ thread_started' = TRUE
    /\ r_pc' = "render"
    /\ UNCHANGED <<vid_duration_seconds, stop_event, output_file, progress_file,
                   stop_calls, stop_error, remove_error, removed_externally>>
    /\ UNCHANGED <<render_pass, encoder, output_path_file, progress_bar_n,
                   progress_bar_closed>>
    /\ UNCHANGED <<windowVars, settingsVars, audioVars, overlayVars, o_pc>>
    /\ UNCHANGED <<pollVars, stageVars, helperVars>>
    /\ UNCHANGED restVars

\* What a failed encoder run leaves at the output path it was given
\* (line 506, with overwrite_output): nothing, or the part written so far.
FailedOutput == {"absent", "truncated"}

\* The ffmpeg.Error a failed encoder run raises (ffmpeg-python raises it for
\* a non-zero exit status): with capture_stderr its stderr attribute holds
\* the encoder's diagnostic stream, which may be empty.
EncoderErrors == {[type |-> "ffmpeg.Error", stderr |-> "diagnostics"],
                  [type |-> "ffmpeg.Error", stderr |-> "empty"]}

\* Line 515: the message logged for an ffmpeg.Error.
ErrorMessage(e) ==
    IF e.stderr = "empty" THEN "Unknown FFmpeg error (no stderr)." ELSE e.stderr

\* The log records of one pass: the debug record of line 510, then either
\* the info record of line 512 or the two error records of lines 516-518
\* (compiled_stream is set once line 508 has returned).
RenderLog(e) ==
    IF e = NoError
    THEN <<[level |-> "debug", text |-> "command"],
           [level |-> "info", text |-> "rendered"]>>
    ELSE <<[level |-> "debug", text |-> "command"],
           [level |-> "error", text |-> ErrorMessage(e)],
           [level |-> "error", text |-> "command"]>>

\* _render_video_pass written with a second attempt after a failed encoder
\* run, the error of the first attempt being dropped.
render_video_pass_retries ==
    /\ r_pc = "render"
    /\ \/ /\ encoder' = "ok"
          /\ output_path_file' = "complete"
          /\ \E first \in {NoError} \cup EncoderErrors :
                /\ encoder_runs' = encoder_runs + (IF first = NoError THEN 1 ELSE 2)
                /\ render_log' = render_log \o RenderLog(first)
                                    \o (IF first = NoError THEN <<>> ELSE RenderLog(NoError))
          /\ encoder_error' = NoError
          /\ pass_error' = NoError
       \/ /\ encoder' = "failed"
          /\ output_path_file' \in FailedOutput
          /\ \E first, e \in EncoderErrors :
                /\ encoder_runs' = encoder_runs + 2
                /\ encoder_error' = e
                /\ render_log' = render_log \o RenderLog(first) \o RenderLog(e)
                /\ pass_error' = e
    /\ progress_bar_n' = IF progress_bar_n < 100 THEN 100 ELSE progress_bar_n
    /\ r_pc' = "exit"
    /\ UNCHANGED <<render_pass, progress_bar_closed>>
    /\ UNCHANGED trackerVars
    /\ UNCHANGED <<windowVars, settingsVars, audioVars, overlayVars, o_pc>>
    /\ UNCHANGED <<pollVars, stageVars, helperVars>>
    /\ UNCHANGED outerVars

\* _render_video_pass, lines 481-525.  compiled_stream.run (line 511) is
\* called once and the encoder writes to output_path itself; on ffmpeg.Error
\* the message and the command are logged and the bare raise of line 521
\* re-raises the error caught; the finally clause fills the progress bar.
render_video_pass ==
    /\ r_pc = "render"
    /\ encoder_runs' = encoder_runs + 1
    /\ \/ /\ encoder' = "ok"
          /\ output_path_file' = "complete"
          /\ encoder_error' = NoError
          /\ render_log' = render_log \o RenderLog(NoError)
          /\ pass_error' = NoError
       \/ /\ encoder' = "failed"
          /\ output_path_file' \in FailedOutput
          /\ \E e \in EncoderErrors :
                /\ encoder_error' = e
                /\ render_log' = render_log \o RenderLog(e)
                /\ pass_error' = e
    /\ progress_bar_n' = IF progress_bar_n < 100 THEN 100 ELSE progress_bar_n
    /\ r_pc' = "exit"
    /\ UNCHANGED <<render_pass, progress_bar_closed>>
    /\ UNCHANGED trackerVars
    /\ UNCHANGED <<windowVars, settingsVars, audioVars, overlayVars, o_pc>>
    /\ UNCHANGED <<pollVars, stageVars, helperVars>>
    /\ UNCHANGED outerVars

\* __exit__ written as caller discipline: stop() only after a render that
\* returned normally.
ProgressFfmpeg_exit_only_on_success ==
    /\ r_pc = "exit"
    /\ IF encoder = "failed"
       THEN /\ r_pc' = "raised"
            /\ UNCHANGED trackerVars
       ELSE /\ \E removeOk \in BOOLEAN : StopEffect(removeOk)
            /\ r_pc' = "close"
    /\ UNCHANGED <<render_pass, encoder, output_path_file, progress_bar_n,
                   progress_bar_closed>>
    /\ UNCHANGED <<windowVars, settingsVars, audioVars, overlayVars, o_pc>>
    /\ UNCHANGED <<pollVars, stageVars, helperVars>>
    /\ UNCHANGED restVars

\* ProgressFfmpeg.__exit__, lines 148-149, as the `with` statement of lines
\* 737-741 / 757-761 runs it: on normal return and on an exception, which
\* then propagates out of make_final_video.
ProgressFfmpeg_exit ==
    /\ r_pc = "exit"
    /\ \E removeOk \in BOOLEAN : StopEffect(removeOk)
    /\ r_pc' = IF encoder = "failed" THEN "raised" ELSE "close"
    /\ UNCHANGED <<render_pass, encoder, output_path_file, progress_bar_n,
                   progress_bar_closed>>
    /\ UNCHANGED <<windowVars, settingsVars, audioVars, overlayVars, o_pc>>
    /\ UNCHANGED <<pollVars, stageVars, helperVars>>
    /\ UNCHANGED restVars

\* main_pbar.close() / tts_pbar.close(), lines 742 and 762.
progress_bar_close ==
    /\ r_pc = "close"
    /\ progress_bar_closed' = TRUE
    /\ r_pc' = "rendered"
    /\ UNCHANGED <<render_pass, encoder, output_path_file, progress_bar_n>>
    /\ UNCHANGED trackerVars
    /\ UNCHANGED <<windowVars, settingsVars, audioVars, overlayVars, o_pc>>
    /\ UNCHANGED <<pollVars, stageVars, helperVars>>
    /\ UNCHANGED restVars

\* A further call of ProgressFfmpeg.stop on a tracker already stopped.
ProgressFfmpeg_stop ==
    /\ stop_calls >= 1
    /\ stop_calls < MaxStopCalls
    /\ \E removeOk \in BOOLEAN : StopEffect(removeOk)
    /\ UNCHANGED renderVars
    /\ UNCHANGED <<windowVars, settingsVars, audioVars, overlayVars, o_pc>>
    /\ UNCHANGED <<pollVars, stageVars, helperVars>>
    /\ UNCHANGED restVars

\* The progress file is deleted by something other than the tracker after
\* the encoder has finished (the case lines 135 and 100-102 provide for).
progress_file_removed_externally ==
    /\ r_pc = "exit"
    /\ progress_file
    /\ progress_file' = FALSE
    /\ removed_externally' = TRUE
    /\ UNCHANGED <<vid_duration_seconds, stop_event, output_file, thread_started,
                   stop_calls, stop_error, remove_error>>
    /\ UNCHANGED renderVars
    /\ UNCHANGED <<windowVars, settingsVars, audioVars, overlayVars, o_pc>>
    /\ UNCHANGED <<pollVars, stageVars, helperVars>>
    /\ UNCHANGED restVars

\* One render pass of make_final_video: the main pass or the narration-only
\* pass, with the total audio length main.py passes (math.ceil, line 183).
InitRender ==
    /\ IdleRest
    /\ IdlePoll
    /\ IdleStages
    /\ IdleHelpers
    /\ IdleWindow
    /\ IdleOverlay
    /\ render_pass \in {"main", "tts"}
    /\ vid_duration_seconds \in 0 .. MaxAudioLength
    /\ stop_event = FALSE
    /\ output_file = "unset"
    /\ progress_file = FALSE
    /\ thread_started = FALSE
    /\ stop_calls = 0
    /\ stop_error = "none"
    /\ remove_error = FALSE
    /\ removed_externally = FALSE
    /\ encoder = "not_run"
    /\ output_path_file = "absent"
    /\ progress_bar_n = 0
    /\ progress_bar_closed = FALSE
    /\ r_pc = "init"

NextRender ==
    \/ ProgressFfmpeg_init
    \/ ProgressFfmpeg_enter
    \/ render_video_pass
    \/ ProgressFfmpeg_exit
    \/ progress_bar_close
    \/ ProgressFfmpeg_stop
    \/ progress_file_removed_externally

SpecRender == InitRender /\ [][NextRender]_vars

(***************************************************************************)
(* Claims about the render pass and the progress tracker (checked under    *)
(* SpecRender).                                                            *)
(***************************************************************************)
RenderFinished == r_pc \in {"exit", "close", "rendered", "raised"}

ScopeLeft == r_pc \in {"close", "rendered", "raised"}

\* C8 as stated: after a render pass that failed with an encoding error no
\* file, complete or truncated, exists at the pass's output path; an output
\* file exists only for a pass whose encoder invocation succeeded.
C8_NoOutputFileAfterFailedPass ==
    /\ (RenderFinished /\ encoder = "failed") => output_path_file = "absent"
    /\ output_path_file # "absent" => encoder = "ok"

C22_SingleInvocationLoggedAndReraised ==
    /\ encoder_runs <= 1
    /\ RenderFinished => encoder_runs = 1
    /\ encoder = "failed" =>
           /\ encoder_error \in EncoderErrors
           /\ pass_error = encoder_error
           /\ render_log = <<[level |-> "debug", text |-> "command"],
                             [level |-> "error", text |-> ErrorMessage(encoder_error)],
                             [level |-> "error", text |-> "command"]>>
           /\ r_pc \in {"exit", "raised"}
    /\ encoder = "ok" =>
           /\ pass_error = NoError
           /\ \A k \in 1 .. Len(render_log) : render_log[k].level # "error"

\* C22 witness: the encoder failed with diagnostics on stderr, they were
\* logged with the command, and the pass was left by that error after one
\* invocation.
C22_Witness ==
    /\ r_pc = "raised"
    /\ encoder = "failed"
    /\ encoder_runs = 1
    /\ pass_error = [type |-> "ffmpeg.Error", stderr |-> "diagnostics"]
    /\ render_log[2] = [level |-> "error", text |-> "diagnostics"]

(***************************************************************************)
(* The progress file and the polling thread: ProgressFfmpeg.run and        *)
(* ProgressFfmpeg._get_latest_ms_progress, final_video.py lines 66-126,    *)
(* and the update callbacks of make_final_video, lines 734-735, 754-755.   *)
(***************************************************************************)
\* The divisor of line 116: out_time_ms counts microseconds.
MicrosPerSecond == 1000000

\* Granularity of the out_time_ms values the model lets the encoder write.
OutTimeStep == 500000

\* The lines an encoder, or anything else writing the file, may leave in it.
\* key: the line contains "out_time_ms"; eq: it contains "="; val: what
\* follows the first "=", stripped.
\*   digits       "out_time_ms=1500000"
\*   N/A          "out_time_ms=N/A"
\*   negative     "out_time_ms=-1500000"
\*   superscript  "out_time_ms=" followed by a numeric character that is not
\*                a decimal digit, such as a superscript two
\*   text         any other value
ProgressLine ==
    {[key |-> TRUE, eq |-> TRUE, val |-> "digits", n |-> k * OutTimeStep] :
        k \in 0 .. MaxOutTime}
    \cup {[key |-> TRUE, eq |-> TRUE, val |-> v, n |-> 0] :
            v \in {"N/A", "negative", "superscript"}}
    \cup {[key |-> TRUE, eq |-> FALSE, val |-> "text", n |-> 0],
          [key |-> FALSE, eq |-> TRUE, val |-> "digits", n |-> OutTimeStep]}

\* str.isnumeric, line 115: true of decimal digits and of every other
\* character with the Unicode numeric property, false of a sign, a point, "N/A".
IsNumeric(val) == val \in {"digits", "superscript"}

\* float(), line 116: raises ValueError for a numeric character that is not a
\* decimal digit.
FloatRaises(val) == val # "digits"

\* The loop written with a return None where line 122 has continue: a line
\* out_time_ms=N/A ends the scan.
RECURSIVE LatestOutTimeStopsAtNA(_, _)
LatestOutTimeStopsAtNA(lines, i) ==
    IF i = 0
    THEN [value |-> NoProgress, raised |-> "none"]
    ELSE IF lines[i].key /\ lines[i].eq /\ IsNumeric(lines[i].val)
         THEN IF FloatRaises(lines[i].val)
              THEN [value |-> NoProgress, raised |-> "ValueError"]
              ELSE [value |-> lines[i].n, raised |-> "none"]
         ELSE IF lines[i].key /\ lines[i].eq /\ lines[i].val = "N/A"
              THEN [value |-> NoProgress, raised |-> "none"]
              ELSE LatestOutTimeStopsAtNA(lines, i - 1)

\* The loop of lines 110-125 over reversed(lines), from line i downwards.
RECURSIVE LatestOutTime(_, _)
LatestOutTime(lines, i) ==
    IF i = 0
    THEN [value |-> NoProgress, raised |-> "none"]
    ELSE IF lines[i].key /\ lines[i].eq /\ IsNumeric(lines[i].val)
         THEN IF FloatRaises(lines[i].val)
              THEN [value |-> NoProgress, raised |-> "ValueError"]
              ELSE [value |-> lines[i].n, raised |-> "none"]
         ELSE LatestOutTime(lines, i - 1)

\* ProgressFfmpeg._get_latest_ms_progress, lines 83-126.  The result is kept
\* in microseconds; the division of line 116 is applied where the value is used.
get_latest_ms_progress ==
    IF output_file # "open"
    THEN [value |-> NoProgress, raised |-> "none"]
    ELSE IF ~progress_file
         THEN [value |-> NoProgress, raised |-> "none"]
         ELSE LatestOutTime(progress_lines, Len(progress_lines))

\* Line 72 without the cap.
CompletedPercentUncapped(micros, duration) ==
    [num |-> micros, den |-> MicrosPerSecond * duration]

\* Line 72: min(latest_progress_sec / vid_duration_seconds, 1.0), as the
\* fraction num/den.
CompletedPercent(micros, duration) ==
    IF micros >= MicrosPerSecond * duration
    THEN [num |-> 1, den |-> 1]
    ELSE [num |-> micros, den |-> MicrosPerSecond * duration]

\* round(progress_ratio * 100), lines 735 and 755: Python rounds halves to even.
RoundPercent(ratio) ==
    LET x == 100 * ratio.num
        q == x \div ratio.den
        r == x % ratio.den
    IN  IF 2 * r < ratio.den THEN q
        ELSE IF 2 * r > ratio.den THEN q + 1
        ELSE IF q % 2 = 0 THEN q ELSE q + 1

\* The external encoder appends a line to the file named by -progress
\* (line 506) while compiled_stream.run (line 509) has not returned.
encoder_writes_progress ==
    /\ r_pc = "render"
    /\ progress_file
    /\ Len(progress_lines) < MaxLines
    /\ \E line \in ProgressLine : progress_lines' = Append(progress_lines, line)
    /\ UNCHANGED <<poll_pc, polls, lines_read, latest_progress_sec, callback_log,
                   poll_error>>
    /\ UNCHANGED <<trackerVars, renderVars>>
    /\ UNCHANGED <<windowVars, settingsVars, audioVars, overlayVars, o_pc>>
    /\ UNCHANGED <<stageVars, helperVars>>
    /\ UNCHANGED restVars

\* What the actions of the polling thread leave alone.
PollFrame ==
    /\ UNCHANGED progress_lines
    /\ UNCHANGED trackerVars
    /\ UNCHANGED <<render_pass, encoder, output_path_file, progress_bar_closed, r_pc>>
    /\ UNCHANGED <<windowVars, settingsVars, audioVars, overlayVars, o_pc>>
    /\ UNCHANGED <<stageVars, helperVars>>
    /\ UNCHANGED restVars

\* ProgressFfmpeg.run, line 69: the test of the stop event at the head of
\* the loop.
ProgressFfmpeg_run ==
    /\ thread_started
    /\ poll_pc = "check"
    /\ IF stop_event
       THEN /\ poll_pc' = "ended"
            /\ UNCHANGED polls
       ELSE /\ polls < MaxPolls
            /\ polls' = polls + 1
            /\ poll_pc' = "read"
    /\ UNCHANGED <<lines_read, latest_progress_sec, callback_log, poll_error,
                   progress_bar_n>>
    /\ PollFrame

\* ProgressFfmpeg.run, lines 70-71: the call of _get_latest_ms_progress and
\* the test that decides whether the callback is called.  An exception ends
\* the loop in the handler of lines 78-79.
poll_progress_file ==
    /\ poll_pc = "read"
    /\ lines_read' = IF output_file = "open" /\ progress_file
                     THEN progress_lines ELSE <<>>
    /\ LET latest == get_latest_ms_progress
       IN  IF latest.raised # "none"
           THEN /\ poll_error' = latest.raised
                /\ poll_pc' = "ended"
                /\ UNCHANGED latest_progress_sec
           ELSE /\ latest_progress_sec' = latest.value
                /\ poll_pc' = IF latest.value # NoProgress /\ vid_duration_seconds > 0
                              THEN "callback" ELSE "wait"
                /\ UNCHANGED poll_error
    /\ UNCHANGED <<polls, callback_log, progress_bar_n>>
    /\ PollFrame

\* ProgressFfmpeg.run, lines 72-73, with update_main_pbar / update_tts_pbar,
\* lines 734-735 and 754-755: the callback moves the bar by the difference
\* to its n; tqdm.update does nothing on a bar that has been closed.
progress_update_callback ==
    /\ poll_pc = "callback"
    /\ LET completed_percent ==
               CompletedPercent(latest_progress_sec, vid_duration_seconds)
       IN  /\ callback_log' = Append(callback_log, completed_percent)
           /\ progress_bar_n' = IF progress_bar_closed
                                THEN progress_bar_n
                                ELSE RoundPercent(completed_percent)
    /\ poll_pc' = "wait"
    /\ UNCHANGED <<polls, lines_read, latest_progress_sec, poll_error>>
    /\ PollFrame

\* self.stop_event.wait(0.5), line 77: returns after the interval or as soon
\* as the event is set.
stop_event_wait ==
    /\ poll_pc = "wait"
    /\ poll_pc' = "check"
    /\ UNCHANGED <<progress_lines, polls, lines_read, latest_progress_sec,
                   callback_log, poll_error>>
    /\ UNCHANGED <<trackerVars, renderVars>>
    /\ UNCHANGED <<windowVars, settingsVars, audioVars, overlayVars, o_pc>>
    /\ UNCHANGED <<stageVars, helperVars>>
    /\ UNCHANGED restVars

\* The main render pass of make_final_video with the total audio length
\* main.py passes, an empty progress file and the polling thread not yet
\* started.
InitProgress ==
    /\ IdleRest
    /\ IdleStages
    /\ IdleHelpers
    /\ IdleWindow
    /\ IdleOverlay
    /\ render_pass = "main"
    /\ vid_duration_seconds \in 0 .. MaxAudioLength
    /\ stop_event = FALSE
    /\ output_file = "unset"
    /\ progress_file = FALSE
    /\ thread_started = FALSE
    /\ stop_calls = 0
    /\ stop_error = "none"
    /\ remove_error = FALSE
    /\ removed_externally = FALSE
    /\ encoder = "not_run"
    /\ output_path_file = "absent"
    /\ progress_bar_n = 0
    /\ progress_bar_closed = FALSE
    /\ r_pc = "init"
    /\ progress_lines = <<>>
    /\ poll_pc = "check"
    /\ polls = 0
    /\ lines_read = <<>>
    /\ latest_progress_sec = NoProgress
    /\ callback_log = <<>>
    /\ poll_error = "none"

NextProgress ==
    \/ ProgressFfmpeg_init
    \/ ProgressFfmpeg_enter
    \/ encoder_writes_progress
    \/ render_video_pass
    \/ ProgressFfmpeg_exit
    \/ progress_bar_close
    \/ ProgressFfmpeg_run
    \/ poll_progress_file
    \/ progress_update_callback
    \/ stop_event_wait

SpecProgress == InitProgress /\ [][NextProgress]_vars

(***************************************************************************)
(* Claims about the polling thread (checked under SpecProgress).           *)
(***************************************************************************)
\* C11: every value the polling loop passes to the update callback lies in
\* the closed interval [0, 1], whatever the progress file contains and
\* whatever total duration the tracker was given.
C11_CallbackValuesInUnitInterval ==
    \A k \in 1 .. Len(callback_log) :
        /\ callback_log[k].den > 0
        /\ 0 <= callback_log[k].num
        /\ callback_log[k].num <= callback_log[k].den

\* C11 witness: the encoder reported more output time than the total
\* duration, and the loop passed the capped value 1.0 to the callback after a
\* value strictly between 0 and 1.
C11_Witness ==
    /\ Len(callback_log) = 2
    /\ 0 < callback_log[1].num
    /\ callback_log[1].num < callback_log[1].den
    /\ callback_log[2] = [num |-> 1, den |-> 1]
    /\ latest_progress_sec > MicrosPerSecond * vid_duration_seconds

\* A line of the progress file carries a numeric out_time_ms.
CarriesNumericOutTime(line) == line.key /\ line.eq /\ IsNumeric(line.val)

\* The positions of such lines among the lines the last read saw.
NumericLinesRead ==
    {i \in 1 .. Len(lines_read) : CarriesNumericOutTime(lines_read[i])}

C25_NoCallbackAfterStop ==
    [][(stop_calls >= 1 \/ progress_bar_closed) => callback_log' = callback_log]_vars

\* C26 as stated: within a pass the value of the progress bar never
\* decreases, and once _render_video_pass has finished the bar stays at 100
\* until it is closed, whatever the interleaving of the two threads.
C26_BarMonotoneAndFullAfterRender ==
    [][/\ progress_bar_n' >= progress_bar_n
       /\ (RenderFinished /\ ~progress_bar_closed') => progress_bar_n' = 100]_vars

(***************************************************************************)
(* The run of one video after the narration exists: chop_background        *)
(* (background.py, lines 196-303) as main.py calls it (lines 186-197),     *)
(* then the statements of make_final_video (final_video.py, lines          *)
(* 573-786) in program order.  Each stage is taken with the outcomes its   *)
(* external calls can have; what the audio, image and overlay stages       *)
(* compute is the subject of SpecOverlay, a render pass that of SpecRender.*)
(*                                                                         *)
(* make_final_video reads two names its module never binds:                *)
(* credit_font_file (line 703) and print_step (lines 750, 779, 786; the    *)
(* import of line 30 is commented out).  Evaluating an unbound name raises *)
(* NameError.  bound_names is the part of the module namespace the run     *)
(* meets: {} is the module as written; the other values are the namespace  *)
(* after a caller has bound the names from outside, which is what lets the *)
(* statements behind them run.                                             *)
(***************************************************************************)
UnboundNames == {"credit_font_file", "print_step"}

flowVars == <<pl_pc, stages, stage_errors, absorbed, pl_error>>

\* A stage returns: control moves to the next statement group.  done is the
\* stage completed ("none" for statements that are no stage of their own),
\* conds the conditions it logged and passed over.
Proceed(done, next, conds) ==
    /\ pl_pc' = next
    /\ stages' = IF done = "none" THEN stages ELSE Append(stages, done)
    /\ absorbed' = absorbed \cup conds
    /\ UNCHANGED <<stage_errors, pl_error>>

\* An exception leaves a stage of make_final_video; no enclosing handler
\* exists in make_final_video, so it leaves the call.
Raise(stage, error) ==
    /\ pl_pc' = "raised"
    /\ stage_errors' = Append(stage_errors,
                              [stage |-> stage, error |-> error, caught |-> FALSE])
    /\ pl_error' = error
    /\ UNCHANGED <<stages, absorbed>>

\* What chop_background can raise before it cuts the video: malformed
\* background configuration, a missing source file, an unreadable duration,
\* a source too short for the narration (lines 212-282).
ChopErrors == {"ValueError", "FileNotFoundError", "RuntimeError", "Exception"}

\* chop_background, lines 196-282: background.mp3 is written exactly when the
\* background volume is not 0.
chop_background ==
    /\ pl_pc = "chop"
    /\ \/ /\ \E e \in ChopErrors : pl_error' = e
          /\ pl_pc' = "raised"
          /\ UNCHANGED background_mp3
       \/ /\ background_mp3' = (background_audio_volume # 0)
          /\ pl_pc' = "extract"
          /\ UNCHANGED pl_error
    /\ UNCHANGED <<stages, stage_errors, absorbed>>
    /\ UNCHANGED <<bound_names, enable_extra_audio, background_audio_volume,
                   background_thumbnail, extract_attempts, crop_attempts,
                   final_audio, render_passes, only_tts_dir>>
    /\ UNCHANGED <<windowVars, settingsVars, audioVars, overlayVars, o_pc>>
    /\ UNCHANGED <<trackerVars, renderVars, pollVars, helperVars>>
    /\ UNCHANGED restVars

\* chop_background without its except clause: the first failure is final.
ffmpeg_extract_subclip_no_fallback ==
    /\ pl_pc = "extract"
    /\ \/ /\ extract_attempts' = <<[strategy |-> "ffmpeg_extract_subclip", ok |-> TRUE]>>
          /\ pl_pc' = "crop"
          /\ UNCHANGED pl_error
       \/ /\ extract_attempts' = <<[strategy |-> "ffmpeg_extract_subclip", ok |-> FALSE]>>
          /\ pl_pc' = "raised"
          /\ pl_error' = "OSError"
    /\ UNCHANGED <<stages, stage_errors, absorbed>>
    /\ UNCHANGED <<bound_names, enable_extra_audio, background_audio_volume,
                   background_thumbnail, background_mp3, crop_attempts,
                   final_audio, render_passes, only_tts_dir>>
    /\ UNCHANGED <<windowVars, settingsVars, audioVars, overlayVars, o_pc>>
    /\ UNCHANGED <<trackerVars, renderVars, pollVars, helperVars>>
    /\ UNCHANGED restVars

\* chop_background, lines 284-291: ffmpeg_extract_subclip cuts background.mp4;
\* an OSError / IOError of the encoder is caught and the MoviePy method tried.
ffmpeg_extract_subclip ==
    /\ pl_pc = "extract"
    /\ \/ /\ extract_attempts' = <<[strategy |-> "ffmpeg_extract_subclip", ok |-> TRUE]>>
          /\ pl_pc' = "crop"
       \/ /\ extract_attempts' = <<[strategy |-> "ffmpeg_extract_subclip", ok |-> FALSE]>>
          /\ pl_pc' = "fallback"
    /\ UNCHANGED <<stages, stage_errors, absorbed, pl_error>>
    /\ UNCHANGED <<bound_names, enable_extra_audio, background_audio_volume,
                   background_thumbnail, background_mp3, crop_attempts,
                   final_audio, render_passes, only_tts_dir>>
    /\ UNCHANGED <<windowVars, settingsVars, audioVars, overlayVars, o_pc>>
    /\ UNCHANGED <<trackerVars, renderVars, pollVars, helperVars>>
    /\ UNCHANGED restVars

\* chop_background, lines 292-300: VideoFileClip.subclip / write_videofile,
\* once; any exception becomes a RuntimeError that leaves chop_background.
moviepy_subclip ==
    /\ pl_pc = "fallback"
    /\ \/ /\ extract_attempts' = Append(extract_attempts,
                                        [strategy |-> "moviepy", ok |-> TRUE])
          /\ pl_pc' = "crop"
          /\ UNCHANGED pl_error
       \/ /\ extract_attempts' = Append(extract_attempts,
                                        [strategy |-> "moviepy", ok |-> FALSE])
          /\ pl_pc' = "raised"
          /\ pl_error' = "RuntimeError"
    /\ UNCHANGED <<stages, stage_errors, absorbed>>
    /\ UNCHANGED <<bound_names, enable_extra_audio, background_audio_volume,
                   background_thumbnail, background_mp3, crop_attempts,
                   final_audio, render_passes, only_tts_dir>>
    /\ UNCHANGED <<windowVars, settingsVars, audioVars, overlayVars, o_pc>>
    /\ UNCHANGED <<trackerVars, renderVars, pollVars, helperVars>>
    /\ UNCHANGED restVars

\* What every stage action of make_final_video leaves alone unless it says
\* otherwise.
StageFrame ==
    /\ UNCHANGED <<bound_names, enable_extra_audio, background_audio_volume,
                   background_thumbnail, background_mp3, extract_attempts>>
    /\ UNCHANGED <<windowVars, settingsVars, audioVars, overlayVars, o_pc>>
    /\ UNCHANGED <<trackerVars, renderVars, pollVars, helperVars>>
    /\ UNCHANGED restVars

\* make_final_video, lines 607-632, with _prepare_background_video, lines
\* 173-200: one encoder invocation; ffmpeg.Error is logged and re-raised.
prepare_background_video ==
    /\ pl_pc = "crop"
    /\ crop_attempts' = crop_attempts + 1
    /\ \/ Proceed("background", "audio", {})
       \/ Raise("background", "ffmpeg.Error")
    /\ UNCHANGED <<final_audio, render_passes, only_tts_dir>>
    /\ StageFrame

\* make_final_video, lines 639-646, with _assemble_concatenated_audio: the
\* title clip missing and a failed concatenation raise; a missing comment or
\* story clip is logged.
assemble_audio_stage ==
    /\ pl_pc = "audio"
    /\ \/ \E conds \in SUBSET {"missing_optional_audio"} :
              Proceed("audio", "title_image", conds)
       \/ Raise("audio", "FileNotFoundError")
       \/ Raise("audio", "ffmpeg.Error")
    /\ UNCHANGED <<crop_attempts, final_audio, render_passes, only_tts_dir>>
    /\ StageFrame

\* make_final_video, lines 651-661: the title template is opened (a missing
\* template is logged and re-raised) and the title image drawn and saved.
create_title_image ==
    /\ pl_pc = "title_image"
    /\ \/ Proceed("none", "images", {})
       \/ Raise("title_image", "FileNotFoundError")
       \/ Raise("title_image", "OSError")
    /\ UNCHANGED <<crop_attempts, final_audio, render_passes, only_tts_dir>>
    /\ StageFrame

\* make_final_video, lines 664-673, with _prepare_image_sequence_for_video: a
\* missing screenshot is logged and left out.
prepare_images_stage ==
    /\ pl_pc = "images"
    /\ \E conds \in SUBSET {"missing_optional_image"} :
           Proceed("images", "overlays", conds)
    /\ UNCHANGED <<crop_attempts, final_audio, render_passes, only_tts_dir>>
    /\ StageFrame

\* make_final_video, lines 679-681, with _apply_overlays_to_background.
apply_overlays_stage ==
    /\ pl_pc = "overlays"
    /\ Proceed("overlays", "credits", {})
    /\ UNCHANGED <<crop_attempts, final_audio, render_passes, only_tts_dir>>
    /\ StageFrame

\* make_final_video, lines 685-708: a missing credits font is logged and
\* replaced by "sans-serif"; the drawtext call then evaluates
\* credit_font_file.
add_credits_text ==
    /\ pl_pc = "credits"
    /\ IF "credit_font_file" \in bound_names
       THEN \E conds \in SUBSET {"missing_credits_font"} :
                Proceed("none", "merge", conds)
       ELSE /\ \E conds \in SUBSET {"missing_credits_font"} :
                   absorbed' = absorbed \cup conds
            /\ pl_pc' = "raised"
            /\ stage_errors' = Append(stage_errors,
                   [stage |-> "credits", error |-> "NameError", caught |-> FALSE])
            /\ pl_error' = "NameError"
            /\ UNCHANGED stages
    /\ UNCHANGED <<crop_attempts, final_audio, render_passes, only_tts_dir>>
    /\ StageFrame

\* ffmpeg.input(str(concatenated_audio_path)), line 646.
main_audio_stream == [input |-> "audio.mp3"]

\* _merge_main_audio_with_background with the two early returns exchanged for
\* the mix.
merge_always_mixes(main, volume, exists) ==
    [filter |-> "amix", duration |-> "longest",
     inputs |-> <<main, [filter |-> "volume", volume |-> volume,
                         input |-> "background.mp3"]>>]

\* _merge_main_audio_with_background, lines 275-292.  volume: the configured
\* background_audio_volume; exists: background.mp3 is in the run's directory.
merge_main_audio_with_background(main, volume, exists) ==
    IF volume = 0
    THEN main
    ELSE IF ~exists
         THEN main
         ELSE [filter |-> "amix", duration |-> "longest",
               inputs |-> <<main, [filter |-> "volume", volume |-> volume,
                                   input |-> "background.mp3"]>>]

\* Lines 622-625.
allow_only_tts_folder_output ==
    enable_extra_audio /\ background_audio_volume # 0

\* background.mp3 is no longer in the run's directory when the merge looks
\* for it (the case lines 282-285 provide for): chop_background wrote it to
\* assets/temp/{id}, which anything cleaning assets/temp may empty meanwhile.
background_mp3_removed_externally ==
    /\ pl_pc = "merge"
    /\ background_mp3
    /\ background_mp3' = FALSE
    /\ UNCHANGED flowVars
    /\ UNCHANGED <<bound_names, enable_extra_audio, background_audio_volume,
                   background_thumbnail, extract_attempts, crop_attempts,
                   final_audio, render_passes, only_tts_dir>>
    /\ UNCHANGED <<windowVars, settingsVars, audioVars, overlayVars, o_pc>>
    /\ UNCHANGED <<trackerVars, renderVars, pollVars, helperVars>>
    /\ UNCHANGED restVars

\* make_final_video, lines 710-724: the output paths and the audio of the
\* main pass.
merge_audio_stage ==
    /\ pl_pc = "merge"
    /\ final_audio' = merge_main_audio_with_background(
                          main_audio_stream, background_audio_volume, background_mp3)
    /\ Proceed("none", "main_render",
               IF final_audio' = main_audio_stream THEN {"merge_skipped"} ELSE {})
    /\ UNCHANGED <<crop_attempts, render_passes, only_tts_dir>>
    /\ StageFrame

\* The main pass with a handler that logs the encoder's error and goes on.
main_render_stage_swallows_error ==
    /\ pl_pc = "main_render"
    /\ \E ok \in BOOLEAN :
        /\ render_passes' = Append(render_passes,
               [pass |-> "main", video |-> "final_video_stream",
                audio |-> final_audio, dir |-> "results/{subreddit}", ok |-> ok])
        /\ Proceed("main_render", "only_tts", {})
    /\ UNCHANGED <<crop_attempts, final_audio, only_tts_dir>>
    /\ StageFrame

\* make_final_video, lines 726-742, with _render_video_pass: the main pass
\* renders final_video_stream with the merged audio to
\* results/{subreddit}/{name}.mp4; ffmpeg.Error is re-raised.
main_render_stage ==
    /\ pl_pc = "main_render"
    /\ \E ok \in BOOLEAN :
        /\ render_passes' = Append(render_passes,
               [pass |-> "main", video |-> "final_video_stream",
                audio |-> final_audio, dir |-> "results/{subreddit}", ok |-> ok])
        /\ IF ok
           THEN Proceed("main_render", "only_tts", {})
           ELSE Raise("main_render", "ffmpeg.Error")
    /\ UNCHANGED <<crop_attempts, final_audio, only_tts_dir>>
    /\ StageFrame

\* make_final_video, lines 745-750: the test of allow_only_tts_folder_output,
\* the OnlyTTS directory and the call of print_step.
only_tts_branch ==
    /\ pl_pc = "only_tts"
    /\ IF allow_only_tts_folder_output
       THEN /\ only_tts_dir' = TRUE
            /\ IF "print_step" \in bound_names
               THEN Proceed("none", "tts_render", {})
               ELSE Raise("tts_render", "NameError")
       ELSE /\ Proceed("none", "thumbnail", {})
            /\ UNCHANGED only_tts_dir
    /\ UNCHANGED <<crop_attempts, final_audio, render_passes>>
    /\ StageFrame

\* make_final_video, lines 752-762: the narration-only pass renders
\* final_video_stream with main_audio_stream to
\* results/{subreddit}/OnlyTTS/{name}.mp4.
tts_render_stage ==
    /\ pl_pc = "tts_render"
    /\ \E ok \in BOOLEAN :
        /\ render_passes' = Append(render_passes,
               [pass |-> "tts", video |-> "final_video_stream",
                audio |-> main_audio_stream, dir |-> "results/{subreddit}/OnlyTTS",
                ok |-> ok])
        /\ IF ok
           THEN Proceed("tts_render", "thumbnail", {})
           ELSE Raise("tts_render", "ffmpeg.Error")
    /\ UNCHANGED <<crop_attempts, final_audio, only_tts_dir>>
    /\ StageFrame

\* make_final_video, line 765, with _generate_optional_thumbnail, lines
\* 528-570: returns at once when thumbnails are off or no PNG is found; an
\* exception of the mkdir of line 535 leaves the call; every exception inside
\* the try block is logged by the handler of lines 569-570.
generate_optional_thumbnail ==
    /\ pl_pc = "thumbnail"
    /\ IF ~background_thumbnail
       THEN Proceed("thumbnail", "save_data", {})
       ELSE \/ Proceed("thumbnail", "save_data", {})
            \/ Proceed("thumbnail", "save_data", {"no_thumbnail_background"})
            \/ Raise("thumbnail", "OSError")
            \/ /\ pl_pc' = "save_data"
               /\ stages' = Append(stages, "thumbnail")
               /\ stage_errors' = Append(stage_errors,
                      [stage |-> "thumbnail", error |-> "Exception", caught |-> TRUE])
               /\ absorbed' = absorbed \cup {"thumbnail_error"}
               /\ UNCHANGED pl_error
    /\ UNCHANGED <<crop_attempts, final_audio, render_passes, only_tts_dir>>
    /\ StageFrame

\* make_final_video, lines 769-776: the call of save_data; make_final_video
\* has no handler around it.
save_data ==
    /\ pl_pc = "save_data"
    /\ \/ Proceed("metadata", "finish", {})
       \/ Raise("metadata", "OSError")
    /\ UNCHANGED <<crop_attempts, final_audio, render_passes, only_tts_dir>>
    /\ StageFrame

\* make_final_video, lines 779-786: the two closing calls of print_step.
finish ==
    /\ pl_pc = "finish"
    /\ IF "print_step" \in bound_names
       THEN Proceed("none", "done", {})
       ELSE Raise("finish", "NameError")
    /\ UNCHANGED <<crop_attempts, final_audio, render_passes, only_tts_dir>>
    /\ StageFrame

\* The settings of the run and the module namespace; nothing has run yet.
InitPipeline ==
    /\ IdleRest
    /\ IdleWindow
    /\ IdleOverlay
    /\ IdleRender
    /\ IdlePoll
    /\ IdleHelpers
    /\ pl_pc = "chop"
    /\ bound_names \in SUBSET UnboundNames
    /\ enable_extra_audio \in BOOLEAN
    /\ background_audio_volume \in {0, 5}
    /\ background_thumbnail \in BOOLEAN
    /\ background_mp3 = FALSE
    /\ extract_attempts = <<>>
    /\ crop_attempts = 0
    /\ stages = <<>>
    /\ stage_errors = <<>>
    /\ absorbed = {}
    /\ final_audio = [input |-> "none"]
    /\ render_passes = <<>>
    /\ only_tts_dir = FALSE
    /\ pl_error = "none"

NextPipeline ==
    \/ chop_background
    \/ ffmpeg_extract_subclip
    \/ moviepy_subclip
    \/ prepare_background_video
    \/ assemble_audio_stage
    \/ create_title_image
    \/ prepare_images_stage
    \/ apply_overlays_stage
    \/ add_credits_text
    \/ background_mp3_removed_externally
    \/ merge_audio_stage
    \/ main_render_stage
    \/ only_tts_branch
    \/ tts_render_stage
    \/ generate_optional_thumbnail
    \/ save_data
    \/ finish

SpecPipeline == InitPipeline /\ [][NextPipeline]_vars

(***************************************************************************)
(* Claims about the run (checked under SpecPipeline).                      *)
(***************************************************************************)
RunEnded == pl_pc \in {"raised", "done"}

PassRan(name) == \E k \in 1 .. Len(render_passes) : render_passes[k].pass = name

PassSucceeded(name) ==
    \E k \in 1 .. Len(render_passes) :
        render_passes[k].pass = name /\ render_passes[k].ok

\* No call to the outside (encoder, file system, save_data) has failed: the
\* only exceptions so far, if any, are NameErrors of the code itself.
NoExternalFailure ==
    /\ pl_error \in {"none", "NameError"}
    /\ \A k \in 1 .. Len(stage_errors) : stage_errors[k].error = "NameError"

\* C12 as stated: the narration-only pass runs if and only if
\* enable_extra_audio is set and background_audio_volume is not 0; when it
\* runs it renders the video stream of the main pass with the un-mixed
\* narration track and writes under results/{category}/OnlyTTS/.
C12_NarrationOnlyPassIffEnabled ==
    /\ \A k \in 1 .. Len(render_passes) :
           render_passes[k].pass = "tts" =>
               /\ allow_only_tts_folder_output
               /\ PassSucceeded("main")
               /\ render_passes[k].video = render_passes[1].video
               /\ render_passes[k].audio = main_audio_stream
               /\ render_passes[k].dir = "results/{subreddit}/OnlyTTS"
    /\ (RunEnded /\ NoExternalFailure /\ allow_only_tts_folder_output)
           => PassRan("tts")

StageOrder == <<"background", "audio", "images", "overlays", "main_render",
                "tts_render", "thumbnail", "metadata">>

StageIndex(stage) == CHOOSE k \in 1 .. Len(StageOrder) : StageOrder[k] = stage

\* The stage a statement group belongs to, for the groups that start one.
StageStarting ==
    CASE pl_pc = "crop" -> "background"
      [] pl_pc = "audio" -> "audio"
      [] pl_pc \in {"title_image", "images"} -> "images"
      [] pl_pc = "overlays" -> "overlays"
      [] pl_pc \in {"credits", "merge", "main_render"} -> "main_render"
      [] pl_pc = "tts_render" -> "tts_render"
      [] pl_pc = "thumbnail" -> "thumbnail"
      [] pl_pc = "save_data" -> "metadata"
      [] OTHER -> "none"

\* C13: the stages of make_final_video complete only in the order background,
\* audio, images, overlays, main render, narration-only render (when
\* enabled), thumbnail, metadata; a stage starts only when every stage before
\* it has completed; and save_data is called only after the main pass, and
\* the narration-only pass when enabled, has succeeded.
C13_StagesOnlyInOrder ==
    /\ \A k \in 1 .. Len(stages) :
           \E j \in 1 .. Len(StageOrder) : StageOrder[j] = stages[k]
    /\ Len(stages) > 0 => stages[1] = "background"
    /\ \A k \in 1 .. Len(stages) - 1 :
           \/ StageIndex(stages[k + 1]) = StageIndex(stages[k]) + 1
           \/ /\ stages[k] = "main_render"
              /\ stages[k + 1] = "thumbnail"
              /\ ~allow_only_tts_folder_output
    /\ StageStarting # "none" =>
           \/ StageStarting = "background" /\ stages = <<>>
           \/ /\ stages # <<>>
              /\ \/ StageIndex(StageStarting) = StageIndex(stages[Len(stages)]) + 1
                 \/ /\ StageStarting = "thumbnail"
                    /\ stages[Len(stages)] = "main_render"
                    /\ ~allow_only_tts_folder_output
    /\ (pl_pc = "save_data" \/ \E k \in 1 .. Len(stages) : stages[k] = "metadata") =>
           /\ PassSucceeded("main")
           /\ allow_only_tts_folder_output => PassSucceeded("tts")

\* C13 witness: a run without the narration-only pass has completed every
\* stage up to the saved metadata.
C13_Witness ==
    /\ stages = <<"background", "audio", "images", "overlays", "main_render",
                  "thumbnail", "metadata">>
    /\ PassSucceeded("main")
    /\ ~PassRan("tts")

AbsorbedByContract == {"missing_optional_audio", "missing_optional_image",
                       "no_thumbnail_background", "merge_skipped"}

\* C14 as stated: a failure raised in any stage of make_final_video leaves
\* the call and no later stage runs; the only conditions passed over without
\* ending the run are a missing optional audio or image asset and a skipped
\* background-music merge.
C14_EveryStageFailureIsFatal ==
    /\ \A k \in 1 .. Len(stage_errors) :
           /\ ~stage_errors[k].caught
           /\ pl_pc = "raised"
           /\ pl_error = stage_errors[k].error
    /\ Len(stage_errors) <= 1
    /\ absorbed \subseteq AbsorbedByContract

ExtractionLeft == pl_pc \notin {"idle", "chop", "extract", "fallback"}

\* C15 as stated: when the background-crop encode fails, exactly one fallback
\* strategy is attempted before the failure is fatal: the run fails at this
\* step only if the fallback fails too, and never more than two attempts are
\* made.
C15_OneFallbackBeforeFatal ==
    /\ Len(extract_attempts) <= 2
    /\ crop_attempts <= 2
    /\ (ExtractionLeft /\ extract_attempts # <<>> /\ ~extract_attempts[1].ok)
           => Len(extract_attempts) = 2
    /\ (\E k \in 1 .. Len(stage_errors) : stage_errors[k].stage = "background")
           => crop_attempts = 2

\* C15 amended: the fallback belongs to the cut of background.mp4 in
\* chop_background: when ffmpeg_extract_subclip fails with an OSError the
\* MoviePy method is tried exactly once, chop_background fails at this step
\* only if that attempt fails too, and never more than two attempts are
\* made.  The crop of _prepare_background_video is a single encoder
\* invocation whose ffmpeg.Error is fatal at once.
C15_FallbackInChopOnlyCropSingleAttempt ==
    /\ Len(extract_attempts) <= 2
    /\ (extract_attempts # <<>> /\ extract_attempts[1].ok)
           => Len(extract_attempts) = 1
    /\ (ExtractionLeft /\ extract_attempts # <<>> /\ ~extract_attempts[1].ok)
           => /\ Len(extract_attempts) = 2
              /\ extract_attempts[2].strategy = "moviepy"
              /\ extract_attempts[2].ok <=> (crop_attempts > 0 \/ pl_pc = "crop")
    /\ (pl_pc = "raised" /\ extract_attempts # <<>> /\ crop_attempts = 0)
           => /\ Len(extract_attempts) = 2
              /\ ~extract_attempts[1].ok
              /\ ~extract_attempts[2].ok
              /\ pl_error = "RuntimeError"
    /\ crop_attempts <= 1
    /\ (\E k \in 1 .. Len(stage_errors) : stage_errors[k].stage = "background")
           => /\ crop_attempts = 1
              /\ pl_pc = "raised"
              /\ pl_error = "ffmpeg.Error"

\* C15 witness: ffmpeg_extract_subclip failed, the MoviePy method was tried
\* once and failed too, and chop_background raised.
C15_Witness ==
    /\ pl_pc = "raised"
    /\ Len(extract_attempts) = 2
    /\ ~extract_attempts[1].ok
    /\ ~extract_attempts[2].ok
    /\ crop_attempts = 0

\* Every call to the outside has succeeded so far: the cut of the background,
\* every encoder invocation, probe, file and image operation and save_data.
EveryExternalCallSucceeded ==
    /\ NoExternalFailure
    /\ \A k \in 1 .. Len(extract_attempts) : extract_attempts[k].ok

\* The stages of a complete run.
StagesOfCompleteRun ==
    IF allow_only_tts_folder_output
    THEN StageOrder
    ELSE SelectSeq(StageOrder, LAMBDA stage : stage # "tts_render")

\* C21 as stated: when every external call succeeds and the title assets are
\* present, make_final_video passes through every stage and ends normally in
\* Done, with the narration-only pass enabled and without it.
C21_SuccessfulRunEndsInDone ==
    (RunEnded /\ EveryExternalCallSucceeded) =>
        /\ pl_pc = "done"
        /\ pl_error = "none"
        /\ stages = StagesOfCompleteRun

FreshPass ==
    /\ stop_event = FALSE
    /\ output_file = "unset"
    /\ progress_file = FALSE
    /\ thread_started = FALSE
    /\ stop_calls = 0
    /\ stop_error = "none"
    /\ remove_error = FALSE
    /\ removed_externally = FALSE
    /\ encoder = "not_run"
    /\ output_path_file = "absent"
    /\ progress_bar_n = 0
    /\ progress_bar_closed = FALSE
    /\ progress_lines = <<>>
    /\ poll_pc = "check"
    /\ polls = 0
    /\ lines_read = <<>>
    /\ latest_progress_sec = NoProgress
    /\ callback_log = <<>>
    /\ poll_error = "none"
    /\ IdleInvocation

\* Control returns from the with block of lines 737-742 to make_final_video:
\* after main_pbar.close() the run goes on to line 745; an ffmpeg.Error of
\* the pass leaves make_final_video.
main_pass_returns ==
    /\ pl_pc = "main_render"
    /\ render_pass = "main"
    /\ r_pc \in {"rendered", "raised"}
    /\ IF r_pc = "rendered"
       THEN Proceed("main_render", "only_tts", {})
       ELSE Raise("main_render", "ffmpeg.Error")
    /\ UNCHANGED <<crop_attempts, final_audio, render_passes, only_tts_dir>>
    /\ UNCHANGED <<bound_names, enable_extra_audio, background_audio_volume,
                   background_thumbnail, background_mp3, extract_attempts>>
    /\ UNCHANGED <<windowVars, settingsVars, audioVars, overlayVars, o_pc>>
    /\ UNCHANGED <<trackerVars, renderVars, pollVars, helperVars>>
    /\ UNCHANGED restVars

\* make_final_video reaches line 753: the names main_pbar and
\* main_ffmpeg_progress are left behind for tts_pbar and a new tracker.
\* Nothing between line 742 and line 757 waits for the polling thread of
\* the main pass.
begin_tts_pass ==
    /\ pl_pc = "tts_render"
    /\ render_pass = "main"
    /\ render_pass' = "tts"
    /\ earlier_poll_pc' = IF thread_started THEN poll_pc ELSE "none"
    /\ stop_event' = FALSE
    /\ output_file' = "unset"
    /\ progress_file' = FALSE
    /\ thread_started' = FALSE
    /\ stop_calls' = 0
    /\ stop_error' = "none"
    /\ remove_error' = FALSE
    /\ removed_externally' = FALSE
    /\ encoder' = "not_run"
    /\ output_path_file' = "absent"
    /\ progress_bar_n' = 0
    /\ progress_bar_closed' = FALSE
    /\ progress_lines' = <<>>
    /\ poll_pc' = "check"
    /\ polls' = 0
    /\ lines_read' = <<>>
    /\ latest_progress_sec' = NoProgress
    /\ callback_log' = <<>>
    /\ poll_error' = "none"
    /\ encoder_runs' = 0
    /\ encoder_error' = NoError
    /\ render_log' = <<>>
    /\ pass_error' = NoError
    /\ r_pc' = "init"
    /\ UNCHANGED vid_duration_seconds
    /\ UNCHANGED <<stageVars, helperVars>>
    /\ UNCHANGED <<windowVars, settingsVars, audioVars, overlayVars, o_pc>>
    /\ UNCHANGED programVars

\* The polling thread of the main pass after its tracker was stopped,
\* ProgressFfmpeg.run, lines 69-77: the loop test finds the event set; a
\* read finds output_file None and returns None (lines 88-90); a callback
\* already due is made on the closed bar.
earlier_ProgressFfmpeg_run ==
    /\ earlier_poll_pc \in {"check", "read", "callback", "wait"}
    /\ earlier_poll_pc' = CASE earlier_poll_pc = "check" -> "ended"
                            [] earlier_poll_pc = "read" -> "wait"
                            [] earlier_poll_pc = "callback" -> "wait"
                            [] earlier_poll_pc = "wait" -> "check"
    /\ UNCHANGED invocationVars
    /\ UNCHANGED <<trackerVars, renderVars, pollVars, stageVars, helperVars>>
    /\ UNCHANGED <<windowVars, settingsVars, audioVars, overlayVars, o_pc>>
    /\ UNCHANGED programVars

\* make_final_video at line 733: the stages before the main pass have
\* completed, the narration-only pass is configured or not.
InitPasses ==
    /\ IdleWindow
    /\ IdleOverlay
    /\ IdleHelpers
    /\ IdleOuter
    /\ render_pass = "main"
    /\ vid_duration_seconds \in 0 .. MaxAudioLength
    /\ FreshPass
    /\ r_pc = "init"
    /\ pl_pc = "main_render"
    /\ bound_names \in {{"credit_font_file"}, UnboundNames}
    /\ enable_extra_audio \in BOOLEAN
    /\ background_audio_volume = 5
    /\ background_thumbnail = FALSE
    /\ background_mp3 = TRUE
    /\ extract_attempts = <<[strategy |-> "ffmpeg_extract_subclip", ok |-> TRUE]>>
    /\ crop_attempts = 1
    /\ stages = <<"background", "audio", "images", "overlays">>
    /\ stage_errors = <<>>
    /\ absorbed = {}
    /\ final_audio = merge_main_audio_with_background(main_audio_stream, 5, TRUE)
    /\ render_passes = <<>>
    /\ only_tts_dir = FALSE
    /\ pl_error = "none"

NextPasses ==
    \/ ProgressFfmpeg_init
    \/ ProgressFfmpeg_enter
    \/ encoder_writes_progress
    \/ render_video_pass
    \/ ProgressFfmpeg_exit
    \/ progress_bar_close
    \/ ProgressFfmpeg_run
    \/ poll_progress_file
    \/ progress_update_callback
    \/ stop_event_wait
    \/ main_pass_returns
    \/ only_tts_branch
    \/ begin_tts_pass
    \/ earlier_ProgressFfmpeg_run

SpecPasses == InitPasses /\ [][NextPasses]_vars

(***************************************************************************)
(* Claims about the two passes (checked under SpecPasses).                 *)
(***************************************************************************)
\* The polling thread of the tracker in use is alive: started, not ended.
PollingThreadAlive == thread_started /\ poll_pc # "ended"

\* The polling thread of the main pass is alive during the narration-only
\* pass.
EarlierPollingThreadAlive == earlier_poll_pc \notin {"none", "ended"}

Forbidden == {"?", "\\", "\"", "%", "*", ":", "|", "<", ">"}

Digit == {"0", "1", "2", "3", "4", "5", "6", "7", "8", "9"}

LowerLetter == {"a", "b", "c", "d", "e", "f", "g", "h", "i", "j", "k", "l", "m",
                "n", "o", "p", "q", "r", "s", "t", "u", "v", "w", "x", "y", "z"}

UpperLetter == {"A", "B", "C", "D", "E", "F", "G", "H", "I", "J", "K", "L", "M",
                "N", "O", "P", "Q", "R", "S", "T", "U", "V", "W", "X", "Y", "Z"}

\* \w, \d and \s of the regular expressions, and the classes [w,W] and
\* [o,O,0] of lines 155-156, in which the comma is a member like any other.
WordChar == LowerLetter \cup UpperLetter \cup Digit \cup {"_"}

Space == {" "}

ClassW == {"w", ",", "W"}

ClassO == {"o", ",", "O", "0"}

\* re.sub(class, "", name): every character of the class is dropped.
RECURSIVE RemoveChars(_, _)
RemoveChars(name, class) ==
    IF name = <<>>
    THEN <<>>
    ELSE IF Head(name) \in class
         THEN RemoveChars(Tail(name), class)
         ELSE <<Head(name)>> \o RemoveChars(Tail(name), class)

\* The end of the longest run of characters of class that starts at p
\* (a greedy class+): the index after the run, p itself when the run is empty.
RECURSIVE RunEnd(_, _, _)
RunEnd(name, p, class) ==
    IF p <= Len(name) /\ name[p] \in class
    THEN RunEnd(name, p + 1, class)
    ELSE p

\* \s? at p: the index after the optional white space.
SkipSpace(name, p) ==
    IF p <= Len(name) /\ name[p] \in Space THEN p + 1 ELSE p

\* The four patterns of lines 155-158 share the form  pre \s? / [\s? post]:
\*   "without"  ( [w,W]\s?\/\s?[o,O,0])
\*   "with"     ( [w,W]\s?\/)
\*   "of"       (\d+)\s?\/\s?(\d+)
\*   "or"       (\w+)\s?\/\s?(\w+)
\* PreEnd is the index after the part before \s?, 0 when it does not match at p.
PreEnd(name, p, rule) ==
    IF rule \in {"without", "with"}
    THEN IF p + 1 <= Len(name) /\ name[p] = " " /\ name[p + 1] \in ClassW
         THEN p + 2
         ELSE 0
    ELSE LET q == RunEnd(name, p, IF rule = "of" THEN Digit ELSE WordChar)
         IN  IF q > p THEN q ELSE 0

\* A match of the pattern of rule that starts at p: pre and post are the
\* index ranges of the two groups, end is the index after the match (0 when
\* there is no match at p).  Every choice of the matcher is forced: the
\* classes on either side of an optional or repeated item are disjoint.
MatchAt(name, p, rule) ==
    LET none == [end |-> 0, pre |-> <<>>, post |-> <<>>]
        q == PreEnd(name, p, rule)
        slash == SkipSpace(name, q)
    IN  IF q = 0 \/ slash > Len(name) \/ name[slash] # "/"
        THEN none
        ELSE IF rule = "with"
             THEN [end |-> slash + 1, pre |-> <<>>, post |-> <<>>]
             ELSE LET r == SkipSpace(name, slash + 1)
                      e == IF rule = "without"
                           THEN IF r <= Len(name) /\ name[r] \in ClassO
                                THEN r + 1 ELSE r
                           ELSE RunEnd(name, r, IF rule = "of" THEN Digit ELSE WordChar)
                  IN  IF e = r
                      THEN none
                      ELSE [end |-> e, pre |-> SubSeq(name, p, q - 1),
                            post |-> SubSeq(name, r, e - 1)]

\* The replacement strings of lines 155-158.
Replacement(m, rule) ==
    CASE rule = "without" -> <<" ", "w", "i", "t", "h", "o", "u", "t">>
      [] rule = "with" -> <<" ", "w", "i", "t", "h">>
      [] rule = "of" -> m.pre \o <<" ", "o", "f", " ">> \o m.post
      [] rule = "or" -> m.pre \o <<" ", "o", "r", " ">> \o m.post

\* re.sub for one rule: the matches are found from left to right, each
\* search starting where the previous match ended.
RECURSIVE Sub(_, _, _)
Sub(name, p, rule) ==
    IF p > Len(name)
    THEN <<>>
    ELSE LET m == MatchAt(name, p, rule)
         IN  IF m.end > 0
             THEN Replacement(m, rule) \o Sub(name, m.end, rule)
             ELSE <<name[p]>> \o Sub(name, p + 1, rule)

\* Line 159 left out.
KeepRemainingSlashes(name) == name

\* Line 159: re.sub(r"\/", r"", name).
RemoveRemainingSlashes(name) == RemoveChars(name, {"/"})

\* name_normalize, lines 154-159, with post_lang unset (no translation).
name_normalize(name) ==
    LET n1 == RemoveChars(name, Forbidden)
        n2 == Sub(n1, 1, "without")
        n3 == Sub(n2, 1, "with")
        n4 == Sub(n3, 1, "of")
        n5 == Sub(n4, 1, "or")
    IN  RemoveRemainingSlashes(n5)

\* str.lower() on one character (line 22 of utils/settings.py).
LowerChar(c) ==
    CASE c = "A" -> "a" [] c = "B" -> "b" [] c = "C" -> "c" [] c = "D" -> "d"
      [] c = "E" -> "e" [] c = "F" -> "f" [] c = "G" -> "g" [] c = "H" -> "h"
      [] c = "I" -> "i" [] c = "J" -> "j" [] c = "K" -> "k" [] c = "L" -> "l"
      [] c = "M" -> "m" [] c = "N" -> "n" [] c = "O" -> "o" [] c = "P" -> "p"
      [] c = "Q" -> "q" [] c = "R" -> "r" [] c = "S" -> "s" [] c = "T" -> "t"
      [] c = "U" -> "u" [] c = "V" -> "v" [] c = "W" -> "w" [] c = "X" -> "x"
      [] c = "Y" -> "y" [] c = "Z" -> "z" [] OTHER -> c

Lower(str) == [k \in 1 .. Len(str) |-> LowerChar(str[k])]

DigitChar(d) == <<"0", "1", "2", "3", "4", "5", "6", "7", "8", "9">>[d + 1]

\* str() of a non-negative integer.
RECURSIVE NatStr(_)
NatStr(n) ==
    IF n < 10 THEN <<DigitChar(n)>> ELSE NatStr(n \div 10) \o <<DigitChar(n % 10)>>

\* str(val), line 22: a string as it is, an integer in decimal with its sign.
Str(val) ==
    IF val.type = "str" THEN val.str
    ELSE IF val.int < 0 THEN <<"-">> \o NatStr(0 - val.int)
    ELSE NatStr(val.int)

\* The tuples of lines 23 and 25.
TrueWords == {<<"t", "r", "u", "e">>, <<"y", "e", "s">>, <<"1">>, <<"o", "n">>}

FalseWords == {<<"f", "a", "l", "s", "e">>, <<"n", "o">>, <<"0">>, <<"o", "f", "f">>}

\* _safe_str_to_bool with Python's truth value in place of the ValueError.
safe_str_to_bool_truthy(val) ==
    IF val.type = "bool"
    THEN [status |-> "returned", value |-> val.bool]
    ELSE LET val_str == Lower(Str(val))
         IN  IF val_str \in TrueWords
             THEN [status |-> "returned", value |-> TRUE]
             ELSE IF val_str \in FalseWords
                  THEN [status |-> "returned", value |-> FALSE]
                  ELSE [status |-> "returned", value |-> (val_str # <<>>)]

\* _safe_str_to_bool, utils/settings.py lines 18-27.  val is a bool, a string
\* or an integer: type says which, and the field of that name holds it.
safe_str_to_bool(val) ==
    IF val.type = "bool"
    THEN [status |-> "returned", value |-> val.bool]
    ELSE LET val_str == Lower(Str(val))
         IN  IF val_str \in TrueWords
             THEN [status |-> "returned", value |-> TRUE]
             ELSE IF val_str \in FalseWords
                  THEN [status |-> "returned", value |-> FALSE]
                  ELSE [status |-> "raised", error |-> "ValueError"]

\* All strings over alphabet of length at most n.
Strings(alphabet, n) == UNION {[1 .. k -> alphabet] : k \in 0 .. n}

\* The names of tests/test_final_video.py that the claims quote.
TestNames ==
    {<<"c", "a", "t", "/", "d", "o", "g">>,
     <<"c", "a", "t", " ", "/", " ", "d", "o", "g">>,
     <<"c", "a", "t", " ", "/", "d", "o", "g">>,
     <<"c", "a", "t", "/", " ", "d", "o", "g">>,
     <<"a", "/", "b", "/", "c">>,
     <<"S", "i", "m", "p", "l", "e", " ", "N", "a", "m", "e", " ", "1", "2", "3">>,
     <<"F", "i", "l", "e", " ", "<", "1", ">", "/", "<", "2", ">", " ", "w", "/",
       " ", "o", "p", "t", "i", "o", "n", "?">>}

NameAlphabet == {"a", "w", "o", "1", " ", "/", ","}

Names ==
    Strings(NameAlphabet, MaxNameLen)
    \cup Strings(NameAlphabet \cup Forbidden, MaxForbiddenLen)
    \cup TestNames

\* The words of tests/test_settings.py that no short string covers.
TestWords ==
    {<<"t", "r", "u", "e">>, <<"T", "r", "u", "e">>, <<"T", "R", "U", "E">>,
     <<"y", "e", "s">>, <<"Y", "e", "s">>,
     <<"f", "a", "l", "s", "e">>, <<"F", "a", "l", "s", "e">>,
     <<"F", "A", "L", "S", "E">>,
     <<" ", "t", "r", "u", "e", " ">>, <<"f", "a", "l", "s", "e", " ">>,
     <<"m", "a", "y", "b", "e">>, <<"T">>, <<"Y">>}

WordAlphabet == {"o", "n", "N", "f", "F", "0", "1", " "}

BoolArguments ==
    {[type |-> "bool", bool |-> b, int |-> 0, str |-> <<>>] : b \in BOOLEAN}
    \cup {[type |-> "int", bool |-> FALSE, int |-> n, str |-> <<>>] :
            n \in (0 - MaxInt) .. MaxInt}
    \cup {[type |-> "str", bool |-> FALSE, int |-> 0, str |-> w] :
            w \in Strings(WordAlphabet, MaxWordLen) \cup TestWords}

MergeArguments == [volume : 0 .. MaxVolume, exists : BOOLEAN]

apply_name_normalize ==
    /\ call = "name_normalize"
    /\ result.status = "pending"
    /\ result' = [status |-> "returned", value |-> name_normalize(argument)]
    /\ UNCHANGED <<call, argument>>
    /\ UNCHANGED <<windowVars, settingsVars, audioVars, overlayVars, o_pc>>
    /\ UNCHANGED <<trackerVars, renderVars, pollVars, stageVars>>
    /\ UNCHANGED restVars

apply_safe_str_to_bool ==
    /\ call = "_safe_str_to_bool"
    /\ result.status = "pending"
    /\ result' = safe_str_to_bool(argument)
    /\ UNCHANGED <<call, argument>>
    /\ UNCHANGED <<windowVars, settingsVars, audioVars, overlayVars, o_pc>>
    /\ UNCHANGED <<trackerVars, renderVars, pollVars, stageVars>>
    /\ UNCHANGED restVars

apply_merge_main_audio_with_background ==
    /\ call = "_merge_main_audio_with_background"
    /\ result.status = "pending"
    /\ result' = [status |-> "returned",
                  value |-> merge_main_audio_with_background(
                                main_audio_stream, argument.volume, argument.exists)]
    /\ UNCHANGED <<call, argument>>
    /\ UNCHANGED <<windowVars, settingsVars, audioVars, overlayVars, o_pc>>
    /\ UNCHANGED <<trackerVars, renderVars, pollVars, stageVars>>
    /\ UNCHANGED restVars

\* One call of one helper with an argument of its domain.
InitHelpers ==
    /\ IdleRest
    /\ IdleWindow
    /\ IdleOverlay
    /\ IdleRender
    /\ IdlePoll
    /\ IdleStages
    /\ result = [status |-> "pending"]
    /\ \/ call = "name_normalize" /\ argument \in Names
       \/ call = "_safe_str_to_bool" /\ argument \in BoolArguments
       \/ call = "_merge_main_audio_with_background" /\ argument \in MergeArguments

NextHelpers ==
    \/ apply_name_normalize
    \/ apply_safe_str_to_bool
    \/ apply_merge_main_audio_with_background

SpecHelpers == InitHelpers /\ [][NextHelpers]_vars

(***************************************************************************)
(* Claims about the helper functions (checked under SpecHelpers).          *)
(***************************************************************************)
Returned(fn) == call = fn /\ result.status = "returned"

Finished(fn) == call = fn /\ result.status # "pending"

\* C16: _merge_main_audio_with_background returns the main audio stream it
\* was given, unchanged and without raising, whenever the volume is 0 or
\* background.mp3 does not exist; only when the volume is not 0 and the file
\* exists does it return the mix of the narration with the volume-scaled
\* background music.
C16_MergeIsNoOpWithoutBackgroundMusic ==
    Finished("_merge_main_audio_with_background") =>
        /\ result.status = "returned"
        /\ (argument.volume = 0 \/ ~argument.exists)
               => result.value = main_audio_stream
        /\ (argument.volume # 0 /\ argument.exists)
               => /\ result.value # main_audio_stream
                  /\ result.value.filter = "amix"
                  /\ result.value.duration = "longest"
                  /\ result.value.inputs =
                         <<main_audio_stream,
                           [filter |-> "volume", volume |-> argument.volume,
                            input |-> "background.mp3"]>>

\* C16 witness: the volume is not 0 but the run has no background.mp3; the
\* narration came back unchanged.
C16_Witness ==
    /\ Returned("_merge_main_audio_with_background")
    /\ argument.volume # 0
    /\ ~argument.exists
    /\ result.value = main_audio_stream

Letter == LowerLetter \cup UpperLetter

\* A name made of words separated by a slash with at most one space on
\* either side of it, read from index p: ok says whether the rest of the name
\* has that form, out is the words joined by " or ".
RECURSIVE SlashChain(_, _)
SlashChain(name, p) ==
    LET fail == [ok |-> FALSE, out |-> <<>>]
        e == RunEnd(name, p, Letter)
    IN  IF e = p THEN fail
        ELSE IF e > Len(name) THEN [ok |-> TRUE, out |-> SubSeq(name, p, e - 1)]
        ELSE LET slash == SkipSpace(name, e)
             IN  IF slash > Len(name) \/ name[slash] # "/" THEN fail
                 ELSE LET rest == SlashChain(name, SkipSpace(name, slash + 1))
                      IN  IF rest.ok
                          THEN [ok |-> TRUE,
                                out |-> SubSeq(name, p, e - 1)
                                            \o <<" ", "o", "r", " ">> \o rest.out]
                          ELSE fail

\* C18 as stated: for a name made of words separated by a slash with at most
\* one space on either side of the slash, name_normalize replaces every such
\* slash by " or ", also in a chain of three or more words: "cat/dog",
\* "cat / dog", "cat /dog", "cat/ dog" give "cat or dog" and "a/b/c" gives
\* "a or b or c".
C18_EverySlashBetweenWordsBecomesOr ==
    (Returned("name_normalize") /\ SlashChain(argument, 1).ok)
        => result.value = SlashChain(argument, 1).out

NoForbiddenNoSlash(name) ==
    \A k \in 1 .. Len(name) : name[k] \notin Forbidden \cup {"/"}

\* C19: the result of name_normalize contains none of the characters
\* ? \ " % * : | < > and no slash, and a string that contains none of them
\* and no slash is returned unchanged, the empty string included.
C19_ResultHasNoForbiddenCharAndNoSlash ==
    Returned("name_normalize") =>
        /\ NoForbiddenNoSlash(result.value)
        /\ NoForbiddenNoSlash(argument) => result.value = argument
        /\ argument = <<>> => result.value = <<>>

\* C19 witness: 'File <1>/<2> w/ option?' came back without its forbidden
\* characters and slashes, as 'File 1 of 2 withoutption'.
C19_Witness ==
    /\ Returned("name_normalize")
    /\ argument = <<"F", "i", "l", "e", " ", "<", "1", ">", "/", "<", "2", ">", " ",
                    "w", "/", " ", "o", "p", "t", "i", "o", "n", "?">>
    /\ result.value = <<"F", "i", "l", "e", " ", "1", " ", "o", "f", " ", "2", " ",
                        "w", "i", "t", "h", "o", "u", "t", "p", "t", "i", "o", "n">>

HasSurroundingSpace(str) ==
    str # <<>> /\ (str[1] = " " \/ str[Len(str)] = " ")

\* C20: _safe_str_to_bool returns a bool unchanged; for any other input it
\* returns True exactly when the lower-cased string form is one of "true",
\* "yes", "1", "on", False exactly when it is one of "false", "no", "0",
\* "off", and raises ValueError otherwise: for the empty string, for integers
\* other than 0 and 1, and for an accepted word with surrounding spaces.
C20_SafeStrToBoolTable ==
    Finished("_safe_str_to_bool") =>
        IF argument.type = "bool"
        THEN result.status = "returned" /\ result.value = argument.bool
        ELSE LET form == Lower(Str(argument))
                 yes == form \in {<<"t", "r", "u", "e">>, <<"y", "e", "s">>,
                                  <<"1">>, <<"o", "n">>}
                 no == form \in {<<"f", "a", "l", "s", "e">>, <<"n", "o">>,
                                 <<"0">>, <<"o", "f", "f">>}
             IN  /\ yes <=> (result.status = "returned" /\ result.value)
                 /\ no <=> (result.status = "returned" /\ ~result.value)
                 /\ (~yes /\ ~no) <=>
                        (result.status = "raised" /\ result.error = "ValueError")
                 /\ (argument.type = "str" /\ argument.str = <<>>)
                        => result.status = "raised"
                 /\ (argument.type = "int" /\ argument.int \notin {0, 1})
                        => result.status = "raised"
                 /\ (argument.type = "str" /\ HasSurroundingSpace(argument.str))
                        => result.status = "raised"

\* C20 witness: " true " was refused with ValueError.
C20_Witness ==
    /\ Finished("_safe_str_to_bool")
    /\ argument.type = "str"
    /\ argument.str = <<" ", "t", "r", "u", "e", " ">>
    /\ result.status = "raised"
    /\ result.error = "ValueError"

(***************************************************************************)
(* The program run: main.py, lines 207-235 and 292-366, with cleanup       *)
(* (utils/cleanup.py, lines 9-62).  A submission is named by its place in  *)
(* the run; its temporary directory is assets/temp/{safe_thread_id}.       *)
(***************************************************************************)
\* The exceptions the handlers of lines 318-325 tell apart.
MainExceptions == {"KeyboardInterrupt", "ResponseException", "Exception"}

\* Everything the actions of main.py leave alone.
MainFrame ==
    /\ UNCHANGED <<windowVars, settingsVars, audioVars, overlayVars, o_pc>>
    /\ UNCHANGED <<trackerVars, renderVars, pollVars, stageVars, helperVars>>
    /\ UNCHANGED <<invocationVars, earlierVars, undoneVars, pollyVars>>

\* cleanup, utils/cleanup.py lines 48-62: the directory of the id is removed
\* when it exists; an OSError of shutil.rmtree is logged and the directory
\* stays.
CleanupEffect(id, rmtreeOk) ==
    IF id \in temp_dirs
    THEN IF rmtreeOk
         THEN /\ temp_dirs' = temp_dirs \ {id}
              /\ UNCHANGED rmtree_failed
         ELSE /\ rmtree_failed' = TRUE
              /\ UNCHANGED temp_dirs
    ELSE UNCHANGED <<temp_dirs, rmtree_failed>>

\* get_reddit_data, lines 127-141, as process_single_submission calls it
\* (line 210): the global is overwritten with the id of this submission.
get_reddit_data ==
    /\ m_pc = "fetch"
    /\ \/ /\ current_reddit_id_for_cleanup' = submission_index
          /\ processed' = processed \cup {submission_index}
          /\ m_pc' = "produce"
          /\ UNCHANGED m_exception
       \/ /\ \E e \in MainExceptions : m_exception' = e
          /\ m_pc' = "shutdown"
          /\ UNCHANGED <<current_reddit_id_for_cleanup, processed>>
    /\ UNCHANGED <<to_process, submission_index, temp_dirs, rmtree_failed>>
    /\ MainFrame

\* process_single_submission, lines 211-213, and the loop around it (lines
\* 301-308, run_many, line 316): narration, screenshots, background and
\* make_final_video fill assets/temp/{id}.  make_final_video returns only
\* with the names of lines 703, 750, 779 bound; an exception or interrupt
\* can arrive before or after the directory was created.
process_single_submission ==
    /\ m_pc = "produce"
    /\ \/ /\ UnboundNames \subseteq bound_names
          /\ temp_dirs' = temp_dirs \cup {submission_index}
          /\ IF submission_index < to_process
             THEN /\ submission_index' = submission_index + 1
                  /\ m_pc' = "fetch"
             ELSE /\ m_pc' = "finally"
                  /\ UNCHANGED submission_index
          /\ UNCHANGED m_exception
       \/ /\ \E e \in MainExceptions : m_exception' = e
          /\ temp_dirs' \in {temp_dirs, temp_dirs \cup {submission_index}}
          /\ m_pc' = "shutdown"
          /\ UNCHANGED submission_index
    /\ UNCHANGED <<to_process, current_reddit_id_for_cleanup, processed, rmtree_failed>>
    /\ MainFrame

\* shutdown_app, lines 226-235, called by each handler of lines 318-362:
\* cleanup of the id the global holds, then sys.exit, whose SystemExit
\* passes through the finally clause.
shutdown_app ==
    /\ m_pc = "shutdown"
    /\ IF current_reddit_id_for_cleanup # 0
       THEN \E rmtreeOk \in BOOLEAN :
                CleanupEffect(current_reddit_id_for_cleanup, rmtreeOk)
       ELSE UNCHANGED <<temp_dirs, rmtree_failed>>
    /\ current_reddit_id_for_cleanup' = 0
    /\ m_exception' = "SystemExit"
    /\ m_pc' = "finally"
    /\ UNCHANGED <<to_process, submission_index, processed>>
    /\ MainFrame

\* The finally clause of lines 363-366: cleanup of the id the global holds,
\* if it still holds one; then the program ends.
final_cleanup ==
    /\ m_pc = "finally"
    /\ IF current_reddit_id_for_cleanup # 0
       THEN \E rmtreeOk \in BOOLEAN :
                CleanupEffect(current_reddit_id_for_cleanup, rmtreeOk)
       ELSE UNCHANGED <<temp_dirs, rmtree_failed>>
    /\ m_pc' = "exited"
    /\ UNCHANGED <<to_process, submission_index, current_reddit_id_for_cleanup,
                   processed, m_exception>>
    /\ MainFrame

\* A run configured for one or several submissions (a post-id list split at
\* "+", times_to_run, or the single default run), nothing processed yet.
InitMain ==
    /\ IdleWindow
    /\ IdleOverlay
    /\ IdleRender
    /\ IdlePoll
    /\ IdleHelpers
    /\ IdleInvocation
    /\ IdleEarlier
    /\ IdleUndone
    /\ IdlePolly
    /\ NoStageRun
    /\ bound_names \in SUBSET UnboundNames
    /\ m_pc = "fetch"
    /\ to_process \in 1 .. MaxSubmissions
    /\ submission_index = 1
    /\ current_reddit_id_for_cleanup = 0
    /\ temp_dirs = {}
    /\ processed = {}
    /\ rmtree_failed = FALSE
    /\ m_exception = "none"

NextMain ==
    \/ get_reddit_data
    \/ process_single_submission
    \/ shutdown_app
    \/ final_cleanup

SpecMain == InitMain /\ [][NextMain]_vars

MaxBatch == 2

\* most calls of subreddit.top the model follows
MaxFetches == 7

VALID_TIME_FILTERS == <<"day", "hour", "month", "week", "year", "all">>

\* a submission every test of lines 51-94 lets through, whatever the settings
SuitableSubmission ==
    [done |-> FALSE, over_18 |-> FALSE, stickied |-> FALSE,
     enough_comments |-> TRUE, selftext |-> "ok", is_self |-> TRUE]

\* the submissions of the model: the one above and each single deviation from it
\* (selftext is the length class the tests of lines 76-91 distinguish)
Submissions ==
    {SuitableSubmission,
     [SuitableSubmission EXCEPT !.done = TRUE],
     [SuitableSubmission EXCEPT !.over_18 = TRUE],
     [SuitableSubmission EXCEPT !.stickied = TRUE],
     [SuitableSubmission EXCEPT !.enough_comments = FALSE],
     [SuitableSubmission EXCEPT !.selftext = "empty"],
     [SuitableSubmission EXCEPT !.selftext = "short"],
     [SuitableSubmission EXCEPT !.selftext = "long"],
     [SuitableSubmission EXCEPT !.is_self = FALSE]}

Batches == UNION {[1..n -> Submissions] : n \in 0..MaxBatch}

\* lines 51-94: the submission passes every `continue`
Suitable(submission) ==
    /\ ~submission.done
    /\ submission.over_18 => allow_nsfw = "true"
    /\ ~submission.stickied
    /\ ~storymode => submission.enough_comments
    /\ storymode => (submission.selftext = "ok" /\ submission.is_self)

\* lines 49-99: the first submission of the batch that passes, if there is one
FirstSuitable(batch) ==
    LET passing == {i \in 1..Len(batch) : Suitable(batch[i])}
    IN  IF passing = {} THEN [kind |-> "None"]
        ELSE [kind |-> "submission",
              submission |-> batch[CHOOSE i \in passing : \A j \in passing : i <= j]]

\* lines 28-32: sort_by_similarity reorders the batch
Reorderings(batch) ==
    {[i \in 1..Len(batch) |-> batch[perm[i]]] :
        perm \in {f \in [1..Len(batch) -> 1..Len(batch)] :
                    \A i, j \in 1..Len(batch) : f[i] = f[j] => i = j}}

UndoneFrame ==
    /\ UNCHANGED <<windowVars, settingsVars, audioVars, overlayVars, o_pc>>
    /\ UNCHANGED <<trackerVars, renderVars, pollVars, stageVars, helperVars>>
    /\ UNCHANGED <<invocationVars, earlierVars, mainVars, pollyVars>>
    /\ UNCHANGED <<ai_similarity_enabled, allow_nsfw, storymode>>

\* lines 116-137 with line 116 using the index of the call itself: the next call
\* is given the same times_checked again
subreddit_top_same_filter ==
    /\ u_pc = "fetch"
    /\ Len(fetched) < MaxFetches
    /\ fetched' = Append(fetched, VALID_TIME_FILTERS[times_checked + 2])
    /\ \/ /\ fetch_failed' = TRUE
          /\ u_result' = [kind |-> "None"]
          /\ u_pc' = "returned"
          /\ UNCHANGED <<submissions, times_checked>>
       \/ /\ \E next_submissions \in Batches : submissions' = next_submissions
          /\ u_pc' = "check"
          /\ UNCHANGED <<times_checked, fetch_failed, u_result>>
    /\ UndoneFrame

\* lines 26-114 of one call: reorder, scan the batch, return the first suitable
\* submission, return None when the filters are exhausted, else go on to fetch
get_subreddit_undone ==
    /\ u_pc = "check"
    /\ \E sorted \in (IF times_checked # 0 /\ ai_similarity_enabled
                       THEN Reorderings(submissions) ELSE {submissions}) :
          /\ submissions' = sorted
          /\ IF FirstSuitable(sorted).kind = "submission"
                THEN /\ u_result' = FirstSuitable(sorted)
                     /\ u_pc' = "returned"
                ELSE IF times_checked >= Len(VALID_TIME_FILTERS) - 1
                THEN /\ u_result' = [kind |-> "None"]
                     /\ u_pc' = "returned"
                ELSE /\ u_pc' = "fetch"
                     /\ UNCHANGED u_result
    /\ UNCHANGED <<times_checked, fetched, fetch_failed>>
    /\ UndoneFrame

\* lines 116-137: subreddit.top with the next time filter; a failure returns
\* None, a batch goes to the next call with times_checked = the filter's index
subreddit_top ==
    /\ u_pc = "fetch"
    /\ Len(fetched) < MaxFetches
    /\ fetched' = Append(fetched, VALID_TIME_FILTERS[times_checked + 2])
    /\ \/ /\ fetch_failed' = TRUE
          /\ u_result' = [kind |-> "None"]
          /\ u_pc' = "returned"
          /\ UNCHANGED <<submissions, times_checked>>
       \/ /\ \E next_submissions \in Batches : submissions' = next_submissions
          /\ times_checked' = times_checked + 1
          /\ u_pc' = "check"
          /\ UNCHANGED <<fetch_failed, u_result>>
    /\ UndoneFrame

InitUndone ==
    /\ IdleWindow
    /\ IdleOverlay
    /\ IdleRender
    /\ IdlePoll
    /\ IdleStages
    /\ IdleHelpers
    /\ IdleInvocation
    /\ IdleEarlier
    /\ IdleMain
    /\ IdlePolly
    /\ u_pc = "check"
    /\ submissions \in Batches
    /\ times_checked = 0
    /\ ai_similarity_enabled \in BOOLEAN
    /\ allow_nsfw \in {"true", "false", "missing"}
    /\ storymode \in BOOLEAN
    /\ fetched = <<>>
    /\ fetch_failed = FALSE
    /\ u_result = [kind |-> "pending"]

NextUndone ==
    \/ get_subreddit_undone
    \/ subreddit_top

\* the function is sequential code: a call that has not returned keeps running
SpecUndone == InitUndone /\ [][NextUndone]_vars /\ WF_vars(NextUndone)

RemainingFilters == <<"hour", "month", "week", "year", "all">>

FetchesFollowTheFilters ==
    /\ Len(fetched) <= Len(RemainingFilters)
    /\ \A i \in 1..Len(fetched) : fetched[i] = RemainingFilters[i]

NoneExactlyWhenExhaustedOrFailed ==
    /\ fetch_failed => (u_pc = "returned" /\ u_result.kind = "None")
    /\ u_pc = "returned" =>
          /\ u_result.kind \in {"submission", "None"}
          /\ u_result.kind = "None" <=>
                \/ fetch_failed
                \/ /\ Len(fetched) = Len(RemainingFilters)
                   /\ \A i \in 1..Len(submissions) : ~Suitable(submissions[i])
          /\ u_result.kind = "submission" => Suitable(u_result.submission)

\* C29: get_subreddit_undone always returns; from times_checked = 0 it calls
\* subreddit.top at most five times, with hour, month, week, year, all in that
\* order, and it returns None exactly when a fetch failed or all five filters
\* were used and the last batch held no suitable submission, whatever the
\* batches contain.
C29_TerminatesWithinFiveFetches ==
    /\ [](FetchesFollowTheFilters /\ NoneExactlyWhenExhaustedOrFailed)
    /\ <>(u_pc = "returned")

\* all five remaining filters were fetched, none failed, and the call returned None
C29_Witness ==
    /\ u_pc = "returned"
    /\ u_result.kind = "None"
    /\ ~fetch_failed
    /\ fetched = RemainingFilters
    /\ Len(submissions) = MaxBatch

\* ===========================================================================
\* SpecPolly: StreamlabsPolly.run (TTS/streamlabs_polly.py).  Each retry is a
\* call of run with retry_count + 1 whose result the caller returns as it is,
\* so the chain of calls is modelled as a loop over retry_count.  What the
\* service answers is an input: the POST fails with a RequestException, or
\* check_ratelimit(response) is false, or the response goes on to be handled.
\* ===========================================================================

\* most POST requests the model follows
MaxPosts == 6

\* line 42
max_retries == 3

PostOutcomes == {"request_failed", "rate_limited", "ok"}

\* lines 87-121: how the handling of an accepted response ends
ResponseOutcomes ==
    {[type |-> "none", after |-> "none"],              \* audio written, line 102
     [type |-> "ValueError", after |-> "response"],    \* "No text specified!", line 94
     [type |-> "RuntimeError", after |-> "response"],  \* lines 95, 106, 109, 112, 121
     [type |-> "IOError", after |-> "write"]}          \* line 115

PollyFrame ==
    /\ UNCHANGED <<windowVars, settingsVars, audioVars, overlayVars, o_pc>>
    /\ UNCHANGED <<trackerVars, renderVars, pollVars, stageVars, helperVars>>
    /\ UNCHANGED <<invocationVars, earlierVars, mainVars, undoneVars>>
    /\ UNCHANGED <<random_voice, configured_voice>>

\* run with line 83 passing retry_count on unchanged after a rate-limit response
StreamlabsPolly_run_ratelimit_uncounted ==
    /\ p_pc = "run"
    /\ IF ~random_voice /\ configured_voice # "valid"
          THEN /\ p_pc' = "raised"
               /\ p_error' = [type |-> "ValueError", after |-> "voice"]
               /\ UNCHANGED <<retry_count, attempts>>
          ELSE /\ Len(attempts) < MaxPosts
               /\ \E outcome \in PostOutcomes :
                    /\ attempts' = Append(attempts, outcome)
                    /\ IF outcome = "request_failed"
                          THEN IF retry_count < max_retries
                                  THEN /\ retry_count' = retry_count + 1
                                       /\ UNCHANGED <<p_pc, p_error>>
                                  ELSE /\ p_pc' = "raised"
                                       /\ p_error' = [type |-> "RuntimeError", after |-> "request"]
                                       /\ UNCHANGED retry_count
                          ELSE IF outcome = "rate_limited"
                          THEN IF retry_count < max_retries
                                  THEN UNCHANGED <<retry_count, p_pc, p_error>>
                                  ELSE /\ p_pc' = "raised"
                                       /\ p_error' = [type |-> "RuntimeError", after |-> "rate_limit"]
                                       /\ UNCHANGED retry_count
                          ELSE /\ \E handled \in ResponseOutcomes :
                                    /\ p_error' = handled
                                    /\ p_pc' = IF handled.type = "none" THEN "returned" ELSE "raised"
                               /\ UNCHANGED retry_count
    /\ PollyFrame

\* lines 41-121 of one call of run: the voice is chosen (lines 46-59), the POST
\* is sent (lines 64-68); a RequestException (lines 69-74) or a false
\* check_ratelimit (lines 78-85) leads to the next call with retry_count + 1
\* while retry_count < max_retries and to RuntimeError otherwise; else the
\* response is handled (lines 87-121)
StreamlabsPolly_run ==
    /\ p_pc = "run"
    /\ IF ~random_voice /\ configured_voice # "valid"
          THEN /\ p_pc' = "raised"
               /\ p_error' = [type |-> "ValueError", after |-> "voice"]
               /\ UNCHANGED <<retry_count, attempts>>
          ELSE /\ Len(attempts) < MaxPosts
               /\ \E outcome \in PostOutcomes :
                    /\ attempts' = Append(attempts, outcome)
                    /\ IF outcome = "request_failed"
                          THEN IF retry_count < max_retries
                                  THEN /\ retry_count' = retry_count + 1
                                       /\ UNCHANGED <<p_pc, p_error>>
                                  ELSE /\ p_pc' = "raised"
                                       /\ p_error' = [type |-> "RuntimeError", after |-> "request"]
                                       /\ UNCHANGED retry_count
                          ELSE IF outcome = "rate_limited"
                          THEN IF retry_count < max_retries
                                  THEN /\ retry_count' = retry_count + 1
                                       /\ UNCHANGED <<p_pc, p_error>>
                                  ELSE /\ p_pc' = "raised"
                                       /\ p_error' = [type |-> "RuntimeError", after |-> "rate_limit"]
                                       /\ UNCHANGED retry_count
                          ELSE /\ \E handled \in ResponseOutcomes :
                                    /\ p_error' = handled
                                    /\ p_pc' = IF handled.type = "none" THEN "returned" ELSE "raised"
                               /\ UNCHANGED retry_count
    /\ PollyFrame

InitPolly ==
    /\ IdleWindow
    /\ IdleOverlay
    /\ IdleRender
    /\ IdlePoll
    /\ IdleStages
    /\ IdleHelpers
    /\ IdleInvocation
    /\ IdleEarlier
    /\ IdleMain
    /\ IdleUndone
    /\ p_pc = "run"
    /\ retry_count = 0
    /\ random_voice \in BOOLEAN
    /\ configured_voice \in {"unset", "valid", "invalid"}
    /\ attempts = <<>>
    /\ p_error = [type |-> "none", after |-> "none"]

NextPolly == StreamlabsPolly_run

SpecPolly == InitPolly /\ [][NextPolly]_vars

UnsuccessfulPosts == {i \in 1..Len(attempts) : attempts[i] # "ok"}

RetriesUsedUp == p_error.after \in {"request", "rate_limit"}

\* C30: one call of run sends at most four POST requests; every request failure
\* and every rate-limit response that is retried adds one to the same
\* retry_count; the fourth unsuccessful POST ends the call with RuntimeError,
\* and that error is raised only then.
C30_AtMostFourPostsSharedCounter ==
    /\ Len(attempts) <= 4
    /\ retry_count = Cardinality(UnsuccessfulPosts) - (IF RetriesUsedUp THEN 1 ELSE 0)
    /\ RetriesUsedUp =>
          /\ p_pc = "raised"
          /\ p_error.type = "RuntimeError"
          /\ Len(attempts) = 4
          /\ Cardinality(UnsuccessfulPosts) = 4
    /\ Cardinality(UnsuccessfulPosts) = 4 => RetriesUsedUp

\* request failures and rate-limit responses mixed, the fourth POST rate-limited
C30_Witness ==
    /\ p_pc = "raised"
    /\ p_error = [type |-> "RuntimeError", after |-> "rate_limit"]
    /\ attempts = <<"request_failed", "rate_limited", "request_failed", "rate_limited">>

====
